---------------------------- MODULE Spec2Model ----------------------------
(***************************************************************************)
(* A model of the Mars rover simulation: the chunk obstacle generator      *)
(* (Rover.tsx getObstaclesInChunk, ScatteredRocks.tsx), the per-frame      *)
(* update of the rover (Rover.tsx useFrame) and its keyboard handlers.     *)
(*                                                                         *)
(* The program computes in IEEE doubles; the model computes in fixed       *)
(* point:                                                                  *)
(*   lengths      in 1/100 of a world unit        (LenUnit)                *)
(*   angles       in 1/1000 of a radian                                    *)
(*   times        in 1/1000 of a second                                    *)
(*   speeds       in 1/100 of a world unit per second                      *)
(*   random draws in 1/10000                      (RandUnit)               *)
(*   wheel travel in 1/1000000 of a world unit                             *)
(* Math.sin, the sin-hash of pseudoRandom and the height field simpleNoise *)
(* are tabulated from the source's formulas (SinQuarter, SinHashTable,     *)
(* HeightSamples), because TLC has neither reals nor 64-bit integers.      *)
(***************************************************************************)
EXTENDS Integers, Sequences, FiniteSets, TLC

VARIABLES
  stormActive,        \* prop of Rover (App state)
  meteorPhase,        \* prop of Rover (App state): "IDLE", "INCOMING", "IMPACT"
  keysPressed,        \* keysPressed.current: [w, a, s, d]
  autoPilotRef,       \* autoPilotRef.current
  userPanelOverride,  \* userPanelOverride.current: "null", "true", "false"
  frameCount,         \* frameCount.current
  delta,              \* the frame delta handed to useFrame, in ms
  roverPos,           \* roverPos.current: [x, y, z]
  agentState,         \* agentState.current
  wheelY,             \* suspensionGroup.position.y of the six wheels
  wheelTarget,        \* targetLocalY of the six wheels (terrain under each wheel)
  lastChunkPos,       \* lastChunkPos.current
  obstaclesCache,     \* obstaclesCache.current
  damageCount,        \* React state damageCount
  frame,              \* the locals of the last executed useFrame call
  genLog,             \* results returned by getObstaclesInChunk so far, per chunk
  renderLast,         \* the last layout of a chunk's rocks: <<>> or <<[chunk, tiers]>>
  lastHit,            \* the last call of RoverHandle.hit: <<>> or <<[impactVelocity, seq]>>
  app                 \* App and GestureController: clock, pending timeouts, cooldownRef, effect deps

vars == <<stormActive, meteorPhase, keysPressed, autoPilotRef, userPanelOverride,
          frameCount, delta, roverPos, agentState, wheelY, wheelTarget,
          lastChunkPos, obstaclesCache, damageCount, frame, genLog,
          renderLast, lastHit, app>>

-----------------------------------------------------------------------------
(* Units and bounds *)

LenUnit == 10 * 10          \* model length units per world unit
RandUnit == 100 * 100       \* model units of a pseudo-random draw in [0,1)

MaxTicks == 6               \* frames explored from an initial state
MaxInputFrames == 1         \* keys, storms and alerts arrive before this frame
MaxChunk == 1               \* chunk coordinates queried lie in -MaxChunk..MaxChunk
MaxCalls == 2               \* logged generator calls explored
MaxGenFrames == 1           \* frames explored beside the generator calls
MaxDamage == 2              \* meteor hits explored in a run
MaxCollideFrames == 20      \* frames explored while meteors fall
MaxStuckFrames == 48        \* frames explored around a recovery episode
MaxWheelFrames == 108       \* frames explored over rough terrain
MaxRoughWheels == 1         \* wheels standing off level ground at a time

-----------------------------------------------------------------------------
(* Arithmetic helpers *)

Abs(a) == IF a < 0 THEN -a ELSE a
Sign(a) == IF a < 0 THEN -1 ELSE 1
Min(a, b) == IF a < b THEN a ELSE b
Max(a, b) == IF a > b THEN a ELSE b

\* a / b rounded toward zero
Quot(a, b) == Sign(a) * Sign(b) * (Abs(a) \div Abs(b))

\* a * b / c rounded toward zero, without forming a * b (c > 0, b >= 0)
MulDiv(a, b, c) ==
  LET m == Abs(a)
  IN  Sign(a) * ((m \div c) * b + ((m % c) * b) \div c)

\* Math.round(n / d) for d > 0: nearest integer, halves toward +infinity
RoundDiv(n, d) == (2 * n + d) \div (2 * d)

\* Math.floor(n / d) for d > 0
FloorDiv(n, d) == n \div d

\* THREE.MathUtils.clamp
Clamp(v, lo, hi) == Max(lo, Min(hi, v))

\* THREE.MathUtils.lerp(x, y, t) with t in 1/1000
Lerp(x, y, t) == x + Quot((y - x) * t, 1000)

RECURSIVE SqrtStep(_, _, _)
SqrtStep(n, lo, hi) ==
  IF lo >= hi THEN lo
  ELSE LET mid == (lo + hi + 1) \div 2
       IN  IF mid * mid <= n THEN SqrtStep(n, mid, hi) ELSE SqrtStep(n, lo, mid - 1)

\* Math.sqrt, rounded down
Sqrt(n) == IF n <= 0 THEN 0 ELSE SqrtStep(n, 0, Min(n, 46340))

\* the left fold of Op over lo .. hi from acc: Op(... Op(Op(acc, lo), lo + 1) ..., hi)
\* (a for loop over lo .. hi), computed half by half; the test left = left makes TLC
\* compute the left half before it descends into the right one
RECURSIVE FoldRange(_, _, _, _)
FoldRange(Op(_, _), lo, hi, acc) ==
  IF lo > hi THEN acc
  ELSE IF lo = hi THEN Op(acc, lo)
  ELSE LET mid  == (lo + hi) \div 2
           left == FoldRange(Op, lo, mid, acc)
       IN  IF left = left /\ mid = mid THEN FoldRange(Op, mid + 1, hi, left) ELSE left

-----------------------------------------------------------------------------
(* Tabulated library functions *)

PiMilli == 3142             \* Math.PI in 1/1000 rad

\* round(1000 * Math.sin(a / 1000)) for a = 0 .. 1571
SinQuarter ==
  <<
  0, 1, 2, 3, 4, 5, 6, 7, 8, 9, 10, 11, 12, 13, 14, 15, 16, 17, 18, 19, 20, 21, 22, 23,
  24, 25, 26, 27, 28, 29, 30, 31, 32, 33, 34, 35, 36, 37, 38, 39, 40, 41, 42, 43, 44, 45, 46, 47,
  48, 49, 50, 51, 52, 53, 54, 55, 56, 57, 58, 59, 60, 61, 62, 63, 64, 65, 66, 67, 68, 69, 70, 71,
  72, 73, 74, 75, 76, 77, 78, 79, 80, 81, 82, 83, 84, 85, 86, 87, 88, 89, 90, 91, 92, 93, 94, 95,
  96, 97, 98, 99, 100, 101, 102, 103, 104, 105, 106, 107, 108, 109, 110, 111, 112, 113, 114, 115, 116, 117, 118, 119,
  120, 121, 122, 123, 124, 125, 126, 127, 128, 129, 130, 131, 132, 133, 134, 135, 136, 137, 138, 139, 140, 141, 142, 143,
  144, 144, 145, 146, 147, 148, 149, 150, 151, 152, 153, 154, 155, 156, 157, 158, 159, 160, 161, 162, 163, 164, 165, 166,
  167, 168, 169, 170, 171, 172, 173, 174, 175, 176, 177, 178, 179, 180, 181, 182, 183, 184, 185, 186, 187, 188, 189, 190,
  191, 192, 193, 194, 195, 196, 197, 198, 199, 200, 201, 202, 203, 204, 205, 206, 207, 207, 208, 209, 210, 211, 212, 213,
  214, 215, 216, 217, 218, 219, 220, 221, 222, 223, 224, 225, 226, 227, 228, 229, 230, 231, 232, 233, 234, 235, 236, 237,
  238, 239, 240, 241, 242, 243, 244, 244, 245, 246, 247, 248, 249, 250, 251, 252, 253, 254, 255, 256, 257, 258, 259, 260,
  261, 262, 263, 264, 265, 266, 267, 268, 269, 270, 271, 272, 273, 273, 274, 275, 276, 277, 278, 279, 280, 281, 282, 283,
  284, 285, 286, 287, 288, 289, 290, 291, 292, 293, 294, 295, 296, 296, 297, 298, 299, 300, 301, 302, 303, 304, 305, 306,
  307, 308, 309, 310, 311, 312, 313, 314, 315, 316, 316, 317, 318, 319, 320, 321, 322, 323, 324, 325, 326, 327, 328, 329,
  330, 331, 332, 333, 333, 334, 335, 336, 337, 338, 339, 340, 341, 342, 343, 344, 345, 346, 347, 348, 349, 349, 350, 351,
  352, 353, 354, 355, 356, 357, 358, 359, 360, 361, 362, 363, 363, 364, 365, 366, 367, 368, 369, 370, 371, 372, 373, 374,
  375, 376, 376, 377, 378, 379, 380, 381, 382, 383, 384, 385, 386, 387, 388, 388, 389, 390, 391, 392, 393, 394, 395, 396,
  397, 398, 399, 400, 400, 401, 402, 403, 404, 405, 406, 407, 408, 409, 410, 410, 411, 412, 413, 414, 415, 416, 417, 418,
  419, 420, 421, 421, 422, 423, 424, 425, 426, 427, 428, 429, 430, 430, 431, 432, 433, 434, 435, 436, 437, 438, 439, 439,
  440, 441, 442, 443, 444, 445, 446, 447, 448, 448, 449, 450, 451, 452, 453, 454, 455, 456, 456, 457, 458, 459, 460, 461,
  462, 463, 464, 464, 465, 466, 467, 468, 469, 470, 471, 472, 472, 473, 474, 475, 476, 477, 478, 479, 479, 480, 481, 482,
  483, 484, 485, 486, 486, 487, 488, 489, 490, 491, 492, 493, 493, 494, 495, 496, 497, 498, 499, 499, 500, 501, 502, 503,
  504, 505, 506, 506, 507, 508, 509, 510, 511, 512, 512, 513, 514, 515, 516, 517, 518, 518, 519, 520, 521, 522, 523, 524,
  524, 525, 526, 527, 528, 529, 529, 530, 531, 532, 533, 534, 535, 535, 536, 537, 538, 539, 540, 540, 541, 542, 543, 544,
  545, 546, 546, 547, 548, 549, 550, 551, 551, 552, 553, 554, 555, 556, 556, 557, 558, 559, 560, 561, 561, 562, 563, 564,
  565, 565, 566, 567, 568, 569, 570, 570, 571, 572, 573, 574, 575, 575, 576, 577, 578, 579, 579, 580, 581, 582, 583, 583,
  584, 585, 586, 587, 588, 588, 589, 590, 591, 592, 592, 593, 594, 595, 596, 596, 597, 598, 599, 600, 600, 601, 602, 603,
  604, 604, 605, 606, 607, 608, 608, 609, 610, 611, 612, 612, 613, 614, 615, 615, 616, 617, 618, 619, 619, 620, 621, 622,
  623, 623, 624, 625, 626, 626, 627, 628, 629, 630, 630, 631, 632, 633, 633, 634, 635, 636, 637, 637, 638, 639, 640, 640,
  641, 642, 643, 643, 644, 645, 646, 647, 647, 648, 649, 650, 650, 651, 652, 653, 653, 654, 655, 656, 656, 657, 658, 659,
  659, 660, 661, 662, 662, 663, 664, 665, 665, 666, 667, 668, 668, 669, 670, 671, 671, 672, 673, 674, 674, 675, 676, 677,
  677, 678, 679, 679, 680, 681, 682, 682, 683, 684, 685, 685, 686, 687, 687, 688, 689, 690, 690, 691, 692, 693, 693, 694,
  695, 695, 696, 697, 698, 698, 699, 700, 700, 701, 702, 703, 703, 704, 705, 705, 706, 707, 708, 708, 709, 710, 710, 711,
  712, 712, 713, 714, 715, 715, 716, 717, 717, 718, 719, 719, 720, 721, 722, 722, 723, 724, 724, 725, 726, 726, 727, 728,
  728, 729, 730, 730, 731, 732, 733, 733, 734, 735, 735, 736, 737, 737, 738, 739, 739, 740, 741, 741, 742, 743, 743, 744,
  745, 745, 746, 747, 747, 748, 749, 749, 750, 751, 751, 752, 753, 753, 754, 755, 755, 756, 757, 757, 758, 758, 759, 760,
  760, 761, 762, 762, 763, 764, 764, 765, 766, 766, 767, 768, 768, 769, 769, 770, 771, 771, 772, 773, 773, 774, 775, 775,
  776, 776, 777, 778, 778, 779, 780, 780, 781, 781, 782, 783, 783, 784, 785, 785, 786, 786, 787, 788, 788, 789, 790, 790,
  791, 791, 792, 793, 793, 794, 794, 795, 796, 796, 797, 797, 798, 799, 799, 800, 800, 801, 802, 802, 803, 803, 804, 805,
  805, 806, 806, 807, 808, 808, 809, 809, 810, 810, 811, 812, 812, 813, 813, 814, 815, 815, 816, 816, 817, 817, 818, 819,
  819, 820, 820, 821, 821, 822, 823, 823, 824, 824, 825, 825, 826, 827, 827, 828, 828, 829, 829, 830, 830, 831, 832, 832,
  833, 833, 834, 834, 835, 835, 836, 837, 837, 838, 838, 839, 839, 840, 840, 841, 841, 842, 843, 843, 844, 844, 845, 845,
  846, 846, 847, 847, 848, 848, 849, 849, 850, 851, 851, 852, 852, 853, 853, 854, 854, 855, 855, 856, 856, 857, 857, 858,
  858, 859, 859, 860, 860, 861, 861, 862, 862, 863, 863, 864, 864, 865, 865, 866, 866, 867, 867, 868, 868, 869, 869, 870,
  870, 871, 871, 872, 872, 873, 873, 874, 874, 875, 875, 876, 876, 877, 877, 878, 878, 879, 879, 880, 880, 881, 881, 881,
  882, 882, 883, 883, 884, 884, 885, 885, 886, 886, 887, 887, 888, 888, 888, 889, 889, 890, 890, 891, 891, 892, 892, 893,
  893, 893, 894, 894, 895, 895, 896, 896, 897, 897, 897, 898, 898, 899, 899, 900, 900, 901, 901, 901, 902, 902, 903, 903,
  904, 904, 904, 905, 905, 906, 906, 907, 907, 907, 908, 908, 909, 909, 909, 910, 910, 911, 911, 912, 912, 912, 913, 913,
  914, 914, 914, 915, 915, 916, 916, 916, 917, 917, 918, 918, 918, 919, 919, 920, 920, 920, 921, 921, 922, 922, 922, 923,
  923, 923, 924, 924, 925, 925, 925, 926, 926, 926, 927, 927, 928, 928, 928, 929, 929, 929, 930, 930, 931, 931, 931, 932,
  932, 932, 933, 933, 933, 934, 934, 935, 935, 935, 936, 936, 936, 937, 937, 937, 938, 938, 938, 939, 939, 939, 940, 940,
  940, 941, 941, 941, 942, 942, 942, 943, 943, 943, 944, 944, 944, 945, 945, 945, 946, 946, 946, 947, 947, 947, 948, 948,
  948, 949, 949, 949, 950, 950, 950, 951, 951, 951, 951, 952, 952, 952, 953, 953, 953, 954, 954, 954, 955, 955, 955, 955,
  956, 956, 956, 957, 957, 957, 957, 958, 958, 958, 959, 959, 959, 959, 960, 960, 960, 961, 961, 961, 961, 962, 962, 962,
  962, 963, 963, 963, 964, 964, 964, 964, 965, 965, 965, 965, 966, 966, 966, 966, 967, 967, 967, 967, 968, 968, 968, 968,
  969, 969, 969, 969, 970, 970, 970, 970, 971, 971, 971, 971, 972, 972, 972, 972, 973, 973, 973, 973, 973, 974, 974, 974,
  974, 975, 975, 975, 975, 976, 976, 976, 976, 976, 977, 977, 977, 977, 977, 978, 978, 978, 978, 978, 979, 979, 979, 979,
  980, 980, 980, 980, 980, 981, 981, 981, 981, 981, 981, 982, 982, 982, 982, 982, 983, 983, 983, 983, 983, 984, 984, 984,
  984, 984, 984, 985, 985, 985, 985, 985, 985, 986, 986, 986, 986, 986, 986, 987, 987, 987, 987, 987, 987, 988, 988, 988,
  988, 988, 988, 989, 989, 989, 989, 989, 989, 989, 990, 990, 990, 990, 990, 990, 990, 991, 991, 991, 991, 991, 991, 991,
  991, 992, 992, 992, 992, 992, 992, 992, 992, 993, 993, 993, 993, 993, 993, 993, 993, 994, 994, 994, 994, 994, 994, 994,
  994, 994, 995, 995, 995, 995, 995, 995, 995, 995, 995, 995, 996, 996, 996, 996, 996, 996, 996, 996, 996, 996, 996, 996,
  997, 997, 997, 997, 997, 997, 997, 997, 997, 997, 997, 997, 997, 998, 998, 998, 998, 998, 998, 998, 998, 998, 998, 998,
  998, 998, 998, 998, 998, 999, 999, 999, 999, 999, 999, 999, 999, 999, 999, 999, 999, 999, 999, 999, 999, 999, 999, 999,
  999, 999, 999, 999, 1000, 1000, 1000, 1000, 1000, 1000, 1000, 1000, 1000, 1000, 1000, 1000, 1000, 1000, 1000, 1000, 1000, 1000, 1000, 1000,
  1000, 1000, 1000, 1000, 1000, 1000, 1000, 1000, 1000, 1000, 1000, 1000
  >>
\* Math.sin of an angle in 1/1000 rad, in 1/1000
Sin(a) ==
  LET m == a % (2 * PiMilli)
      h == PiMilli \div 2
      q == IF m <= h THEN m
           ELSE IF m <= PiMilli THEN PiMilli - m
           ELSE IF m <= PiMilli + h THEN m - PiMilli
           ELSE 2 * PiMilli - m
  IN  (IF m <= PiMilli THEN 1 ELSE -1) * SinQuarter[q + 1]

\* Math.cos of an angle in 1/1000 rad, in 1/1000
Cos(a) == Sin(a + PiMilli \div 2)

\* floor(10000 * frac(sin(seedBase + idx) * 43758.5453)) for idx = 0 .. 74, per
\* seedBase (in 1/100) of the chunks -3..3 x -3..3
SinHashTable ==
  (-19256640 :> <<8409, 4818, 7032, 6549, 1791, 6334, 3748, 3875, 2210, 5463, 9982, 2420, 6081, 6951, 5641, 9929, 9296, 88, 5150, 3278, 5495, 7856, 183, 3, 9408, 2868, 1164, 1144, 5860, 8852, 3093, 4038, 7248, 5841, 551, 821, 4260, 176, 2856, 1074, 5464, 9118, 2878, 4563, 9875, 1066, 8640, 5061, 136, 1046, 1529, 4700, 8167, 4853, 8026, 2628, 9195, 763, 6344, 8489, 3157, 9428, 9971, 3356, 5544, 2264, 1648, 1938, 8548, 9399, 4297, 7343, 4362, 5518, 3784>>) @@
  (-13825360 :> <<7761, 3945, 725, 8712, 3113, 9593, 2855, 5792, 7584, 3404, 596, 6582, 6719, 4057, 6864, 164, 616, 670, 4004, 1110, 9445, 5229, 9233, 2472, 8433, 2047, 9177, 7085, 6250, 2407, 6577, 9190, 4115, 4553, 7856, 3377, 9264, 9351, 5376, 3115, 214, 3969, 1472, 858, 9525, 3978, 8139, 1325, 9682, 4960, 1306, 4645, 5854, 86, 9018, 2528, 7796, 8797, 1538, 8208, 956, 954, 1729, 7336, 5123, 3173, 5943, 6439, 9285, 1142, 547, 4557, 4542, 2836, 4820>>) @@
  (-8394080 :> <<8549, 5907, 4973, 9736, 9604, 3448, 7806, 2242, 9675, 3623, 2497, 2652, 5056, 9341, 3959, 8564, 7201, 2583, 3269, 9497, 4186, 3068, 8163, 3013, 2487, 6155, 4741, 4701, 5570, 5574, 4110, 4036, 4335, 4325, 4768, 1653, 6004, 5944, 653, 1546, 6360, 9500, 8827, 3962, 6419, 2136, 3960, 522, 1392, 4291, 5066, 1384, 3251, 7185, 8893, 9880, 4205, 2452, 9935, 2439, 1131, 1846, 80, 7316, 6756, 3290, 7445, 8363, 5637, 457, 2283, 9658, 84, 6579, 8113>>) @@
  (-2962800 :> <<512, 1762, 8260, 8852, 3907, 2907, 2183, 1464, 9217, 1917, 610, 9298, 9796, 7013, 4306, 428, 9620, 971, 5517, 523, 2915, 4532, 7931, 700, 9634, 3940, 6530, 8373, 8184, 8785, 7384, 1818, 4884, 8318, 4979, 6022, 1830, 2234, 2913, 1648, 1378, 9976, 2366, 7602, 5994, 424, 6395, 5531, 747, 3193, 4392, 1297, 5846, 6350, 1845, 2145, 3526, 5601, 5398, 6496, 3499, 1588, 5882, 6547, 6590, 238, 7425, 4801, 3866, 3027, 4358, 2204, 9785, 8146, 1239>>) @@
  (2468480 :> <<6647, 8311, 3391, 5988, 8551, 9678, 8127, 1997, 2891, 9511, 788, 1221, 2908, 4694, 4977, 8101, 6844, 6557, 5750, 6518, 7631, 6014, 8525, 9578, 8777, 555, 3831, 2071, 3319, 9026, 8933, 1109, 576, 6357, 5378, 5598, 3046, 1712, 7801, 8321, 2483, 6392, 1133, 7120, 9472, 7742, 3125, 1284, 5547, 7282, 4663, 649, 2985, 1616, 5513, 7547, 9678, 7849, 2045, 8906, 3291, 9344, 4681, 4792, 1546, 8822, 9282, 9931, 1197, 8609, 3137, 1957, 7769, 9113, 1654>>) @@
  (7899760 :> <<6931, 70, 4886, 5114, 6714, 5794, 3373, 3234, 1224, 6955, 7356, 2616, 3006, 4225, 3232, 7169, 3390, 9586, 7963, 1352, 1410, 1388, 8511, 2519, 2141, 2056, 5215, 1059, 7015, 7812, 1608, 4681, 2183, 2680, 3379, 9494, 3091, 9142, 9852, 6346, 1351, 2754, 1571, 6265, 2470, 786, 9970, 1529, 2114, 528, 4070, 6710, 102, 604, 7988, 3982, 4252, 1586, 2560, 266, 7887, 1448, 3185, 5990, 6287, 3332, 318, 312, 8905, 3965, 993, 9273, 3489, 3495, 3844>>) @@
  (13331040 :> <<6341, 9160, 6005, 5192, 7467, 1464, 329, 446, 8715, 2883, 4640, 8911, 119, 2284, 1886, 8680, 133, 7699, 7271, 9403, 8262, 1647, 7801, 3279, 146, 5714, 8494, 2686, 988, 2142, 294, 7941, 9030, 4910, 9382, 106, 6333, 3630, 3211, 6199, 498, 4237, 2410, 5816, 5787, 4268, 3540, 795, 2913, 5323, 5073, 1084, 7180, 9201, 7812, 5466, 7557, 1071, 1249, 3536, 5464, 3413, 5924, 4752, 4760, 9340, 3193, 8339, 2790, 4973, 8124, 4613, 1779, 86, 8793>>) @@
  (-18269040 :> <<2735, 8647, 1713, 5832, 6171, 219, 5267, 9654, 3837, 9486, 4300, 5132, 208, 8564, 8036, 5738, 2680, 7618, 8777, 8709, 7423, 4269, 7400, 3038, 5916, 8157, 384, 4663, 8743, 8133, 5076, 3541, 7867, 5315, 6420, 6614, 8991, 479, 7439, 1784, 9701, 1729, 1171, 5510, 8754, 8694, 2244, 7467, 5240, 4001, 1316, 6541, 3795, 6155, 2707, 4474, 6883, 314, 6326, 1309, 5523, 3330, 5230, 9416, 9341, 548, 9068, 6419, 3821, 7046, 6669, 3724, 4769, 6616, 9651>>) @@
  (-12837760 :> <<3989, 2049, 8208, 2333, 373, 6299, 8045, 6682, 1624, 8376, 2413, 6746, 2654, 7352, 5693, 1553, 9872, 5843, 4594, 4699, 1057, 9348, 2689, 8228, 6722, 2112, 6931, 8558, 327, 8792, 1786, 3941, 8619, 4873, 1840, 5557, 3862, 170, 3894, 7034, 2354, 2173, 679, 3716, 5686, 7455, 6510, 3882, 8883, 1931, 5571, 4195, 6450, 4640, 9672, 4295, 7609, 5006, 3973, 9395, 5532, 3864, 4000, 1554, 3315, 5588, 1154, 932, 1860, 9393, 2104, 2435, 4556, 4472, 3493>>) @@
  (-7406480 :> <<6804, 5566, 3365, 631, 911, 5969, 9321, 505, 4503, 6780, 5137, 3550, 4260, 8054, 7902, 394, 2074, 2064, 4827, 2110, 686, 4217, 7509, 1697, 8281, 6151, 2302, 4045, 7153, 7029, 6761, 8991, 6358, 1386, 1669, 1425, 4598, 9452, 7073, 1701, 9590, 1289, 9703, 738, 4407, 7811, 8740, 9660, 1036, 2037, 5602, 6088, 1029, 3564, 3700, 9445, 7080, 5963, 2419, 2504, 7821, 9516, 8139, 1035, 721, 7848, 7494, 5682, 5273, 1838, 9265, 6083, 2543, 9984, 1818>>) @@
  (-1975200 :> <<6992, 3702, 1057, 3126, 933, 679, 9881, 4587, 897, 3131, 8575, 3759, 4125, 6525, 7421, 6739, 2899, 5294, 7774, 4298, 5557, 3810, 4396, 4291, 1683, 5493, 1862, 1781, 6027, 4424, 3259, 2575, 7842, 2783, 2445, 6098, 9824, 9954, 7741, 6261, 7597, 4156, 5664, 2454, 9665, 4589, 7552, 3566, 3275, 5845, 7805, 3778, 9831, 3946, 3318, 6634, 7426, 9056, 3278, 7563, 8236, 5930, 2847, 6702, 4944, 4749, 608, 9359, 1125, 9873, 3953, 6587, 8475, 500, 9645>>) @@
  (3456080 :> <<6886, 8244, 4107, 825, 2955, 6653, 663, 4421, 5095, 4402, 3531, 8755, 3369, 6888, 5467, 7246, 5468, 2052, 5145, 3227, 3572, 3647, 6464, 6366, 6490, 5940, 1011, 2403, 4929, 1281, 8597, 4413, 1647, 2659, 8925, 8709, 9447, 46, 3115, 6201, 2469, 3724, 4562, 2825, 5241, 288, 1639, 7071, 6052, 7458, 4858, 9105, 522, 6136, 482, 2040, 4853, 4528, 9919, 867, 3694, 1553, 7790, 9405, 322, 6300, 7694, 1667, 1669, 442, 6011, 3631, 9670, 4220, 7636>>) @@
  (8887360 :> <<5381, 2043, 3723, 1525, 974, 5101, 4116, 1941, 6866, 3803, 388, 5718, 2581, 228, 3450, 6426, 2600, 421, 2513, 9666, 5658, 1861, 6457, 6607, 8218, 9982, 6546, 5976, 5824, 2936, 5114, 8445, 4216, 6027, 1978, 2979, 9964, 9344, 44, 7823, 9444, 7276, 642, 3746, 2168, 4435, 1461, 568, 4117, 6507, 9091, 5483, 4030, 8029, 7060, 6636, 730, 8064, 6363, 1966, 3608, 429, 6904, 8257, 9844, 7115, 8603, 4982, 7540, 6994, 6917, 7148, 927, 2871, 5986>>) @@
  (14318640 :> <<2033, 7698, 4845, 6329, 792, 3981, 1068, 766, 7203, 1092, 2373, 6301, 9332, 7880, 774, 700, 9713, 7654, 1448, 3879, 8080, 1554, 227, 610, 738, 5525, 4772, 2444, 7615, 4961, 933, 5649, 8865, 7515, 1639, 788, 2583, 8440, 1038, 8424, 666, 9203, 2581, 4138, 8082, 4540, 6846, 163, 1423, 4682, 7390, 2162, 1130, 3360, 2686, 4319, 1512, 1764, 2867, 9103, 3401, 2001, 9057, 5613, 5065, 442, 3174, 7149, 2588, 6502, 325, 4420, 3971, 8141, 6852>>) @@
  (-17281440 :> <<3207, 6026, 3535, 3195, 2368, 6315, 3241, 253, 4737, 8898, 171, 2602, 6421, 9247, 340, 6426, 4512, 4578, 9188, 9864, 3226, 1161, 8396, 566, 6140, 4848, 2491, 6106, 814, 6970, 6846, 3650, 5430, 4379, 5847, 8062, 1309, 4166, 9592, 9717, 1525, 9709, 8672, 9679, 4138, 3927, 2830, 3752, 7957, 8145, 7033, 3604, 9705, 3988, 8613, 5651, 9007, 6926, 4817, 1345, 2705, 3576, 7946, 4940, 6224, 3406, 9160, 732, 9837, 1070, 6071, 630, 3105, 8198, 5906>>) @@
  (-11850160 :> <<6665, 97, 7655, 6041, 2122, 8288, 6777, 1626, 2385, 1583, 2002, 7285, 3879, 2189, 2456, 1821, 6775, 6924, 7817, 9751, 106, 4332, 3148, 6773, 9300, 4327, 4442, 7153, 3116, 5160, 2308, 6625, 336, 5748, 1795, 3050, 7681, 6915, 6055, 1125, 15, 9857, 8866, 1220, 9547, 6756, 862, 9371, 3849, 8586, 5826, 8033, 4139, 3999, 2505, 7175, 5398, 1270, 9642, 431, 7002, 9492, 6434, 8913, 7737, 9261, 5477, 9601, 1940, 2664, 2701, 4366, 6556, 9094, 8434>>) @@
  (-6418880 :> <<3001, 1102, 4745, 6193, 131, 4270, 9013, 6247, 7463, 2352, 9392, 5480, 7856, 4660, 5083, 7668, 4578, 1796, 4432, 6650, 7602, 4495, 1837, 7986, 3838, 3414, 1994, 4313, 4181, 6681, 8728, 4255, 7047, 1697, 1721, 3498, 6698, 3504, 1379, 4300, 2319, 643, 2544, 7916, 5508, 612, 475, 3, 6250, 6896, 4447, 2567, 3191, 2499, 1228, 4471, 18, 7225, 7382, 9551, 9755, 3844, 838, 9334, 3643, 6022, 5254, 3199, 2124, 3251, 4994, 2251, 5402, 6181, 6665>>) @@
  (-987600 :> <<5138, 5810, 815, 8269, 7486, 4953, 9273, 1667, 6616, 6447, 1058, 2017, 5919, 6765, 6236, 3744, 9708, 3413, 3555, 9885, 4464, 5467, 9876, 4165, 667, 5297, 5287, 5836, 8479, 8438, 3276, 5597, 176, 2459, 9119, 7073, 3351, 384, 4057, 9574, 2481, 7025, 9585, 4794, 3460, 7666, 9033, 607, 2601, 7034, 7062, 8936, 8394, 5759, 2315, 6103, 6207, 4830, 9675, 957, 6279, 8817, 482, 2797, 1415, 1250, 4966, 8518, 9777, 3862, 8984, 6733, 4289, 6111, 8076>>) @@
  (4443680 :> <<9479, 7983, 8972, 7981, 7277, 3202, 1472, 8496, 9533, 4050, 8109, 1347, 2986, 3173, 4214, 5800, 685, 4916, 6450, 5461, 963, 487, 5552, 4174, 266, 3951, 2245, 6440, 9046, 3831, 9894, 3204, 1612, 9786, 2521, 5196, 8062, 4436, 7268, 493, 9981, 2576, 1190, 3323, 215, 3008, 8980, 5559, 3721, 8406, 7378, 3629, 2699, 3548, 3392, 985, 7690, 7484, 3464, 9191, 7568, 4858, 814, 3208, 1141, 3889, 3055, 165, 3117, 3609, 5121, 2458, 9171, 8830, 2451>>) @@
  (9874960 :> <<9600, 5380, 4020, 3390, 2608, 7637, 2630, 7257, 4284, 8144, 8127, 3525, 1056, 4160, 682, 7928, 5972, 6113, 2580, 984, 1956, 5231, 2029, 3256, 1491, 5918, 6448, 370, 1450, 932, 359, 6919, 8646, 3867, 6784, 5987, 4231, 3329, 9616, 3176, 2246, 1945, 7515, 386, 3839, 5527, 5128, 2073, 253, 8124, 2512, 1454, 9189, 4386, 8078, 4536, 4918, 5961, 4383, 9547, 7345, 5350, 5595, 7776, 3207, 3971, 2490, 8087, 6226, 2929, 7499, 6812, 5194, 5338, 7093>>) @@
  (15306240 :> <<7604, 497, 79, 4767, 4465, 4776, 5898, 7951, 2533, 5347, 1823, 4515, 307, 1348, 4366, 2916, 1183, 3733, 7740, 3119, 7313, 2259, 3662, 2454, 9954, 1661, 8694, 571, 2061, 4848, 7695, 6911, 8271, 3832, 7208, 5855, 8119, 3800, 4872, 1156, 4787, 6662, 3549, 3475, 1343, 7320, 9103, 9006, 4304, 413, 9052, 6629, 41, 5967, 7605, 5912, 5630, 35, 4803, 3845, 7569, 5549, 3493, 2834, 6416, 4824, 7181, 266, 3038, 3453, 6488, 1988, 508, 7623, 4513>>) @@
  (-16293840 :> <<123, 4189, 63, 3914, 1476, 3984, 9380, 7310, 6701, 3981, 1853, 2430, 8538, 9273, 6144, 9222, 5973, 7125, 2214, 7979, 5310, 8606, 1550, 4237, 7973, 5965, 2447, 7050, 2725, 5870, 6644, 9426, 8154, 5883, 5550, 8293, 7665, 4129, 6079, 3806, 5606, 6340, 1235, 8806, 7294, 476, 9282, 8345, 2059, 3608, 6150, 315, 761, 1030, 5260, 3219, 1726, 7395, 2286, 5747, 2400, 996, 9013, 4629, 6301, 5319, 3053, 1592, 8373, 3449, 5121, 3866, 3688, 3975, 1215>>) @@
  (-10862560 :> <<979, 2072, 9268, 4747, 149, 5971, 4894, 4075, 6530, 759, 8521, 950, 3423, 7009, 3235, 6119, 4074, 3934, 6443, 9286, 6883, 3367, 7066, 3998, 1764, 9969, 5275, 5576, 3293, 8943, 6829, 1943, 9855, 4390, 596, 3001, 6483, 3062, 8520, 1627, 4906, 3562, 6432, 6030, 7506, 6431, 3220, 4509, 9995, 2013, 6891, 9561, 5500, 9978, 8658, 9863, 7249, 1021, 8706, 9833, 4607, 3693, 7361, 7421, 3194, 5528, 5207, 6831, 6079, 1950, 3881, 955, 4380, 531, 6779>>) @@
  (-5431280 :> <<9799, 8671, 5390, 8342, 9523, 3941, 9897, 248, 212, 9072, 8491, 6412, 5975, 7919, 4026, 5541, 408, 7489, 797, 668, 2117, 5278, 1376, 4649, 5081, 5698, 265, 2923, 7152, 4106, 2758, 6507, 7439, 5398, 1537, 8236, 1863, 8999, 3621, 585, 6494, 6843, 8657, 2555, 5079, 9883, 4495, 41, 7241, 7509, 7999, 9037, 172, 4372, 4484, 3206, 5155, 2155, 5922, 2271, 1729, 3245, 9699, 9923, 3317, 7497, 1012, 8032, 6026, 4294, 7651, 4576, 4752, 615, 1209>>) @@
  (0 :> <<0, 5462, 5326, 2062, 4237, 8686, 1842, 7778, 8776, 7054, 4275, 8832, 3496, 8983, 5368, 6499, 7696, 6443, 8905, 4086, 1561, 8336, 6795, 6261, 2082, 4799, 4484, 6193, 4432, 3466, 1734, 9003, 6294, 6884, 8886, 3492, 2001, 7074, 6578, 2840, 679, 9027, 3503, 7472, 6104, 3004, 9462, 3800, 2936, 1713, 8580, 2537, 3881, 1086, 2040, 1679, 6868, 9352, 6627, 7289, 9306, 917, 5280, 2419, 10, 8202, 1601, 6902, 9909, 1835, 3304, 7681, 9411, 4436, 4327>>) @@
  (5431280 :> <<200, 1106, 5939, 2672, 1509, 7186, 3575, 5917, 3859, 889, 7713, 8394, 1992, 1050, 9302, 2399, 9252, 7919, 6305, 2021, 6060, 148, 8786, 4961, 6895, 619, 4428, 1780, 4358, 7844, 2094, 9063, 6306, 9698, 7216, 630, 5270, 7358, 8986, 1176, 219, 4800, 2922, 9914, 4238, 7186, 3911, 1000, 2913, 300, 6368, 4285, 6432, 8322, 3929, 1884, 581, 3970, 6715, 1268, 5276, 6466, 9644, 7737, 8596, 8784, 897, 2333, 1340, 2258, 6540, 6857, 4481, 7661, 287>>) @@
  (10862560 :> <<9020, 4018, 3365, 5918, 1131, 128, 2401, 7639, 8137, 1088, 9075, 5598, 3711, 8293, 5879, 8734, 1285, 6354, 6111, 8793, 6619, 4836, 1552, 3786, 6762, 3721, 1120, 3295, 3529, 8242, 1506, 730, 3876, 733, 4360, 9134, 8482, 4849, 4295, 4731, 7541, 7695, 9409, 5517, 5446, 248, 6719, 313, 9404, 3413, 6293, 8736, 4574, 1581, 4329, 1666, 4232, 8684, 3739, 3435, 7976, 2410, 9038, 5421, 1484, 1198, 9884, 3581, 5968, 2035, 7574, 9990, 8112, 1160, 3351>>) @@
  (16293840 :> <<9876, 7794, 5904, 7317, 2215, 3784, 8809, 6081, 3768, 9871, 3702, 8067, 5476, 1553, 933, 9701, 2165, 6542, 3950, 8286, 3598, 5677, 2025, 1010, 9491, 8599, 5861, 3836, 7318, 3272, 4745, 6725, 352, 9062, 7089, 6406, 3818, 8858, 4674, 9543, 4903, 2551, 7168, 9854, 6133, 2424, 9084, 9952, 7726, 4259, 7842, 1436, 648, 9255, 6081, 953, 4351, 399, 2573, 1469, 8557, 5561, 5037, 1701, 7964, 7508, 5355, 1670, 8411, 7301, 7275, 1927, 5453, 9513, 5>>) @@
  (-15306240 :> <<2395, 2330, 9136, 2020, 775, 52, 5858, 4294, 2464, 1567, 7887, 723, 7929, 3017, 987, 5033, 2679, 6181, 3736, 8519, 9497, 6267, 4950, 2960, 7951, 121, 5986, 2367, 724, 9367, 3624, 5280, 4759, 5438, 9911, 3626, 2078, 3601, 1972, 6634, 925, 175, 1408, 5059, 1824, 6685, 6175, 6531, 7150, 6309, 1560, 2233, 6298, 718, 2077, 5799, 8343, 5693, 3590, 2046, 1685, 6053, 437, 8911, 7651, 6601, 7081, 8430, 8356, 8187, 115, 4078, 7158, 604, 7570>>) @@
  (-9874960 :> <<399, 973, 1478, 6262, 9896, 3325, 4409, 3536, 9060, 6120, 8196, 6737, 8664, 9845, 3141, 5782, 4472, 2085, 7638, 297, 1768, 1254, 8426, 3017, 9096, 6413, 480, 1432, 4008, 6293, 9163, 392, 5604, 4206, 6766, 1552, 3770, 5603, 6208, 7088, 1140, 4901, 8144, 5820, 5854, 3399, 80, 2653, 1273, 1949, 1015, 8650, 5939, 4334, 9413, 721, 2104, 4213, 3564, 2853, 305, 58, 6491, 8087, 4380, 3968, 6456, 9636, 1140, 6839, 5017, 6412, 218, 1424, 5703>>) @@
  (-4443680 :> <<520, 5192, 7301, 7127, 199, 1382, 1655, 9854, 17, 2342, 4220, 4645, 2831, 5351, 751, 325, 8855, 7538, 2590, 1475, 6529, 9179, 5154, 9341, 2476, 7772, 8640, 802, 4132, 2326, 933, 7939, 8810, 9632, 7173, 9267, 6477, 8634, 6973, 3225, 6008, 3349, 7768, 891, 8684, 6750, 1325, 573, 25, 8655, 3542, 9204, 1081, 2077, 3903, 8774, 8365, 224, 7611, 1329, 3912, 1117, 1778, 3618, 5903, 7468, 7811, 6669, 1591, 8026, 3704, 9949, 5100, 5610, 4220>>) @@
  (987600 :> <<4861, 1737, 3358, 3604, 8881, 8018, 7545, 3073, 8178, 6336, 1574, 9816, 6072, 1674, 7779, 9158, 513, 9708, 1057, 1151, 3180, 7423, 8623, 6283, 3109, 5791, 6214, 5523, 582, 2670, 7784, 8367, 1904, 8784, 5083, 142, 80, 6056, 4567, 1271, 4443, 6810, 3876, 9495, 9302, 1105, 4859, 1778, 8556, 3018, 5288, 6239, 8089, 2646, 5736, 6492, 7638, 770, 2743, 5931, 4227, 2315, 1115, 4224, 9340, 4886, 1484, 6396, 2938, 3604, 6515, 6122, 4883, 472, 4457>>) @@
  (6418880 :> <<6998, 3040, 4144, 1497, 1338, 2120, 7367, 2801, 2703, 1942, 9038, 6074, 339, 2025, 1655, 1533, 4335, 2796, 2485, 8524, 6043, 7983, 322, 2498, 2857, 5819, 1354, 3347, 3278, 8373, 3863, 1410, 7891, 9850, 4422, 5532, 6258, 644, 7912, 8588, 5075, 6724, 127, 7239, 9577, 7662, 6661, 4984, 6595, 5371, 2374, 3878, 5360, 4844, 7350, 7771, 4892, 9381, 3615, 9897, 2572, 260, 7300, 143, 6051, 5542, 3595, 6687, 7233, 5806, 4570, 1748, 5942, 708, 9642>>) @@
  (11850160 :> <<3334, 5965, 4933, 7994, 9933, 3385, 5218, 6600, 285, 7281, 2510, 6078, 9221, 8501, 8384, 8697, 5673, 4784, 3244, 278, 1818, 7663, 9217, 6279, 4108, 4872, 3669, 1998, 1001, 2620, 3963, 7484, 5822, 9570, 8978, 5994, 4143, 3643, 6268, 7793, 1378, 1810, 6722, 3784, 5267, 7648, 3257, 1401, 7003, 515, 7843, 4121, 9943, 8181, 8962, 135, 7103, 7974, 4971, 4906, 1110, 419, 7953, 9581, 2124, 6046, 3435, 2201, 2688, 2932, 8056, 9333, 8520, 3208, 7758>>) @@
  (17281440 :> <<6792, 6196, 2185, 3680, 9842, 6180, 4959, 3343, 61, 8956, 5629, 6294, 5281, 1785, 4763, 5453, 9086, 5115, 2328, 7955, 2144, 3944, 8922, 4303, 1531, 8249, 9810, 5191, 8305, 3195, 1849, 8837, 8412, 3604, 239, 4835, 6467, 1195, 3391, 6, 2817, 494, 26, 6576, 1283, 9932, 2336, 4085, 9979, 180, 4662, 7032, 4899, 5960, 4104, 2604, 3474, 9191, 1347, 477, 5688, 651, 6722, 7922, 7312, 4699, 2555, 823, 5952, 9304, 1037, 7981, 6188, 5750, 9397>>) @@
  (-14318640 :> <<7966, 7671, 7355, 5038, 5290, 9941, 5446, 6599, 3228, 8008, 4396, 5499, 6140, 3572, 5788, 9629, 3495, 3736, 7824, 5634, 3787, 9769, 5002, 5630, 4453, 5553, 9259, 1863, 4044, 668, 4932, 167, 6479, 192, 7824, 8218, 4927, 8094, 281, 3401, 3971, 7707, 3719, 4094, 1188, 1804, 2956, 2272, 7682, 1942, 1035, 8975, 6580, 3585, 6667, 8951, 219, 5712, 5306, 7874, 9788, 2341, 5112, 6214, 2517, 6405, 3593, 9864, 110, 1312, 4006, 8941, 9515, 4387, 1944>>) @@
  (-8887360 :> <<4618, 4242, 8936, 8989, 2483, 4945, 1600, 9562, 6855, 7674, 4148, 1603, 848, 5015, 258, 189, 8703, 9443, 6570, 5270, 7590, 536, 7544, 6300, 622, 9411, 9831, 4469, 2984, 9654, 9501, 658, 7541, 8640, 2862, 4569, 4650, 8124, 2273, 3247, 9868, 8568, 6315, 978, 112, 532, 7165, 4362, 5274, 1959, 8907, 9059, 4621, 5208, 7245, 4720, 9232, 5290, 2423, 7064, 970, 6731, 1549, 189, 2309, 7643, 2267, 4953, 7516, 9796, 2495, 5980, 2658, 4011, 532>>) @@
  (-3456080 :> <<3113, 5921, 4644, 9972, 403, 6355, 9721, 3005, 4665, 1070, 1460, 6240, 6248, 2876, 1686, 6016, 1338, 4503, 8117, 7672, 3598, 3995, 4995, 5806, 1430, 3782, 6922, 3247, 79, 2517, 1853, 6421, 4926, 248, 3267, 8701, 8740, 6695, 3205, 8979, 5358, 5094, 7855, 9241, 2438, 8662, 5258, 1672, 2938, 3288, 6341, 932, 5906, 4156, 3932, 9251, 5216, 9958, 3897, 6083, 6732, 6083, 2694, 2825, 9904, 8402, 4283, 478, 5379, 3955, 238, 3987, 736, 6392, 2059>>) @@
  (1975200 :> <<3007, 3476, 8323, 1828, 8988, 865, 425, 7663, 4773, 6644, 7078, 6479, 2868, 1171, 2118, 511, 5390, 3378, 1967, 9605, 5663, 8271, 3621, 3524, 7651, 1807, 3927, 9279, 4900, 7167, 8016, 6023, 3643, 4404, 4669, 8357, 9784, 6952, 9639, 3533, 8457, 5881, 7976, 880, 4718, 2732, 7345, 3153, 9056, 5130, 7182, 2261, 8803, 8240, 1902, 1330, 6257, 4642, 4998, 1891, 4656, 97, 9962, 6839, 20, 5947, 1765, 7825, 6974, 3525, 2027, 5634, 3063, 4041, 5015>>) @@
  (7406480 :> <<3195, 2437, 1641, 1245, 1652, 1086, 5299, 1810, 9633, 4327, 5076, 4558, 8305, 708, 4522, 8537, 5161, 2384, 869, 9913, 3387, 9381, 7402, 6359, 7088, 3875, 8853, 4365, 7365, 5441, 9694, 2680, 9013, 8067, 6738, 7382, 7009, 3086, 9495, 4499, 2239, 8401, 8508, 472, 5656, 7546, 4248, 6762, 3571, 5980, 4108, 8400, 9633, 6957, 2200, 5973, 116, 2332, 9605, 5480, 5489, 5620, 1769, 5585, 7382, 5785, 7684, 6128, 4592, 6824, 808, 7609, 251, 6903, 2669>>) @@
  (12837760 :> <<6010, 4525, 8519, 2423, 5125, 2547, 6611, 4272, 2548, 3929, 1396, 9287, 2614, 1291, 6514, 738, 989, 6708, 718, 6931, 1069, 8327, 5998, 8445, 8299, 8750, 483, 6873, 3905, 2305, 3387, 5629, 5314, 7120, 8179, 5499, 7284, 6500, 1194, 7128, 5980, 8610, 8371, 9355, 6389, 179, 598, 1433, 8046, 7625, 8093, 1527, 7797, 8871, 2821, 7648, 9870, 7699, 61, 5091, 1792, 4986, 194, 5417, 9655, 9043, 7102, 9854, 4786, 6769, 9010, 3912, 7619, 4519, 3979>>) @@
  (18269040 :> <<7264, 9864, 5367, 1019, 734, 1327, 5588, 9857, 7589, 6154, 6917, 5673, 8906, 5057, 640, 201, 3563, 8587, 4625, 9195, 5155, 4016, 9427, 8748, 7095, 4515, 3766, 872, 9013, 8229, 150, 3542, 6149, 3837, 4349, 7010, 4558, 6196, 3642, 9628, 5308, 8311, 5565, 6661, 7057, 8412, 278, 2386, 5335, 801, 8580, 1374, 5003, 9776, 1149, 6448, 4227, 3105, 8350, 760, 3863, 5505, 6083, 3072, 9575, 6880, 3542, 8668, 2264, 7990, 1899, 3869, 1926, 1428, 6763>>) @@
  (-13331040 :> <<3658, 1550, 6886, 5972, 9448, 5044, 5213, 225, 5932, 8511, 6328, 6950, 8579, 1393, 4148, 9067, 9325, 7878, 617, 3214, 1852, 1739, 8519, 6285, 6430, 4234, 3755, 4231, 8255, 9234, 4170, 1157, 490, 774, 7458, 2695, 4055, 6061, 3705, 3341, 9231, 1950, 2747, 5395, 963, 7961, 8423, 9081, 7870, 9800, 9438, 60, 1605, 3547, 9925, 5750, 6279, 335, 4045, 5278, 1530, 7903, 7733, 9394, 2069, 7910, 8195, 5883, 8436, 3781, 5467, 2932, 1991, 2126, 6708>>) @@
  (-7899760 :> <<3068, 6385, 5526, 8537, 1081, 8970, 7365, 9209, 1789, 3018, 3447, 9640, 6318, 5435, 8806, 151, 5355, 919, 7599, 2886, 1190, 8859, 8990, 1182, 8929, 978, 2049, 8474, 8178, 3013, 7160, 2842, 2022, 1845, 5584, 9316, 8656, 6763, 950, 5857, 2862, 8896, 3094, 5853, 2144, 8782, 8335, 3028, 8515, 6971, 6511, 512, 6646, 6912, 6626, 7921, 1358, 2625, 9043, 2787, 4567, 5289, 5025, 9613, 2168, 6235, 3716, 3621, 2382, 9221, 7279, 4974, 8813, 196, 6528>>) @@
  (-2468480 :> <<3352, 8515, 8077, 3490, 9111, 3721, 7219, 8598, 6397, 8780, 4316, 9992, 9513, 3670, 8761, 3853, 8847, 2228, 2526, 1034, 9931, 1617, 4914, 9327, 9562, 5511, 2673, 7089, 6681, 9970, 8507, 3291, 1380, 338, 4492, 8438, 1023, 3326, 1317, 4725, 2075, 5297, 8857, 9457, 3806, 2774, 4944, 9473, 120, 3866, 5134, 2647, 540, 8527, 5592, 9936, 8681, 3381, 3839, 586, 7468, 8513, 4577, 7116, 7324, 5286, 402, 4889, 8170, 1594, 2780, 3665, 7332, 3292, 6181>>) @@
  (2962800 :> <<9487, 6888, 2419, 7782, 6301, 9420, 1343, 4771, 3876, 4497, 7559, 4886, 8509, 7861, 5802, 1904, 5193, 6853, 2164, 4207, 298, 7753, 1044, 290, 3874, 8464, 9293, 6322, 7504, 8920, 3053, 3782, 1989, 1659, 1005, 3682, 7485, 7609, 9457, 6718, 1653, 7580, 3307, 2793, 6620, 3239, 4012, 1515, 8466, 3720, 3320, 9635, 3578, 1955, 853, 9554, 2248, 7587, 9498, 2773, 7926, 2012, 2562, 3785, 7655, 54, 7231, 2282, 3946, 2544, 682, 468, 5935, 9275, 6166>>) @@
  (8394080 :> <<1450, 4382, 5543, 4033, 8929, 4466, 4986, 6050, 9629, 5136, 3558, 981, 9696, 327, 4481, 4535, 4999, 8827, 4723, 8426, 6298, 8623, 6306, 23, 5012, 6166, 9419, 5666, 7009, 3404, 9196, 4568, 9386, 9170, 2434, 3763, 9822, 8996, 4185, 8472, 9093, 9859, 8561, 5143, 5145, 9843, 2258, 8624, 8184, 2420, 1504, 278, 7276, 9928, 6102, 2364, 6405, 1507, 6630, 1344, 58, 1641, 8448, 5102, 342, 4326, 3942, 6023, 2902, 1866, 8291, 1040, 9183, 2824, 1155>>) @@
  (13825360 :> <<2238, 1191, 7594, 2519, 4606, 2608, 9034, 6567, 9623, 962, 1674, 6241, 3332, 7760, 8044, 9037, 8698, 5281, 6792, 3573, 5347, 2970, 499, 3220, 7306, 9800, 8187, 7008, 24, 329, 1290, 2798, 2836, 5275, 5734, 6239, 5497, 2880, 8648, 9731, 7902, 7494, 4839, 5658, 1031, 1743, 4461, 4098, 5844, 2114, 3534, 9279, 3822, 2638, 3341, 2336, 3566, 1287, 6660, 9833, 892, 4841, 9260, 5471, 9892, 7798, 3162, 4166, 7379, 5833, 3072, 9730, 197, 4797, 5339>>) @@
  (19256640 :> <<1590, 9236, 593, 757, 2113, 3031, 9442, 8505, 5895, 4217, 9397, 7602, 9622, 3065, 3858, 2941, 638, 3729, 8989, 3053, 7694, 5503, 5893, 709, 7657, 6474, 4276, 2133, 2595, 4753, 3647, 8881, 302, 107, 8430, 1527, 8366, 1595, 4910, 8711, 9586, 3621, 7692, 7975, 7491, 7731, 673, 1795, 6278, 4704, 3005, 9850, 6861, 7794, 7284, 9474, 5722, 1387, 5316, 325, 7386, 9254, 6044, 6260, 603, 4357, 8496, 5725, 4479, 4219, 5925, 6347, 3937, 7984, 2723>>)
\* round(100 * (simpleNoise(x, z, 42) - 2.0)) on the lattice x = -60, -58 .. 100,
\* z = -100, -98 .. 80
HeightSamples ==
  <<
    <<-12, 0, 39, 73, 47, 62, 133, 166, 223, 276, 239, 231, 189, 89, -17, -170, -233, -315, -326, -370, -370, -386, -360, -363, -338, -287, -98, 85, 92, -7, -293, -172, 7, 69, -99, -284, -122, -139, -134, -79, -160, -260, -189, -116, -74, -85, -126, -126, -148, -179, -164, -169, -164, -120, -81, -72, -38, -91, -110, -140, -68, -48, 18, 45, 39, 0, -71, -109, -189, -232, -288, -269, -285, -316, -308, -288, -276, -262, -244, -235, -204, -231, -273, -285, -343, -352, -405, -399, -450, -447, -416>>,
    <<-14, -14, -53, -87, -118, -85, 28, 129, 214, 243, 260, 236, 188, 119, 1, -140, -250, -300, -328, -348, -337, -348, -336, -354, -317, -270, -252, -35, 175, -67, -271, -113, -46, 106, -145, -199, -113, -144, -102, -133, -247, -191, -63, -22, -37, -66, -80, -134, -154, -181, -175, -156, -126, -101, -58, -34, -34, -38, -51, -5, 53, 78, 107, 118, 108, 56, 19, -22, -59, -124, -155, -166, -190, -231, -247, -273, -254, -231, -212, -232, -230, -211, -233, -228, -258, -307, -342, -377, -374, -404, -409>>,
    <<-32, -91, -185, -177, -127, -77, 7, 103, 182, 228, 237, 274, 207, 164, 42, -130, -213, -275, -304, -285, -307, -282, -286, -265, -233, -227, -192, -22, 221, -28, -131, -58, -121, 120, -186, -117, -93, -181, -129, -173, -225, -42, 15, -21, -78, -83, -151, -202, -199, -223, -207, -150, -99, -96, -39, -23, 6, 27, 60, 47, 111, 117, 136, 151, 160, 129, 121, 84, 50, 68, 52, 16, -3, -16, -105, -173, -198, -241, -211, -211, -185, -171, -140, -168, -192, -208, -269, -329, -373, -400, -405>>,
    <<-17, -148, -157, -153, -77, 4, 18, 39, 61, 135, 180, 266, 271, 190, 82, -57, -195, -228, -235, -211, -213, -200, -212, -199, -156, -119, -113, 0, 182, 113, 34, -20, -201, 167, -212, -101, -125, -185, -118, -260, -165, 10, 28, -54, -86, -177, -191, -205, -198, -194, -159, -155, -80, -66, -22, 22, 26, 18, 4, 17, 10, 47, 35, 27, 12, -19, -32, -42, -36, -88, -78, 0, 46, 114, 115, -17, -117, -163, -196, -188, -157, -110, -90, -86, -134, -174, -269, -328, -378, -409, -440>>,
    <<-9, -127, -108, -69, -2, 23, -7, -33, 15, 33, 107, 215, 255, 258, 117, -26, -129, -160, -153, -155, -161, -165, -166, -129, -114, -106, -118, -69, -7, 18, 82, -32, -203, 235, -249, -143, -202, -164, -146, -261, -101, 41, -15, -83, -139, -213, -248, -246, -206, -182, -174, -134, -133, -106, -77, -50, -38, -27, -32, -18, -21, -18, -15, -32, -68, -93, -117, -121, -171, -159, -138, -138, -96, 43, 174, 182, 4, -131, -162, -192, -116, -65, 9, -14, -84, -177, -272, -334, -383, -419, -416>>,
    <<32, -61, -61, 24, 21, -11, -11, -57, -30, 27, 33, 134, 202, 253, 196, 22, -84, -85, -112, -86, -105, -107, -127, -93, -101, -119, -169, -155, -192, -110, 89, -23, -160, 218, -281, -173, -232, -177, -208, -250, -63, 43, 19, -84, -176, -208, -240, -212, -204, -195, -189, -182, -176, -181, -179, -160, -184, -143, -166, -163, -170, -148, -160, -201, -214, -238, -212, -231, -244, -230, -281, -231, -119, -59, 44, 229, 122, -75, -176, -182, -120, -28, 30, -17, -100, -188, -274, -327, -356, -387, -362>>,
    <<56, -40, -25, 45, 54, 34, -8, -24, -54, -17, -20, 86, 158, 262, 214, 86, -40, -41, -35, -52, -65, -65, -66, -60, -91, -149, -193, -185, -186, -125, 95, -44, -106, 198, -309, -196, -262, -196, -193, -292, -44, 22, -18, -93, -200, -245, -227, -226, -197, -170, -173, -184, -155, -156, -160, -170, -144, -152, -120, -120, -120, -113, -136, -152, -187, -225, -237, -273, -299, -310, -308, -284, -264, -142, -37, 104, 202, -26, -170, -187, -118, 23, 65, -26, -125, -246, -268, -332, -343, -364, -369>>,
    <<85, 32, 43, 71, 70, 81, 16, -17, -26, -27, -27, 47, 123, 205, 235, 79, 22, -20, -23, -49, -55, -40, -43, -67, -86, -105, -188, -183, -147, -103, 75, -65, -99, 176, -293, -172, -275, -179, -217, -295, -57, -3, -2, -112, -169, -177, -228, -204, -147, -156, -138, -83, -95, -39, -19, -22, -5, 10, 3, 45, 23, 63, 1, -32, -63, -104, -150, -190, -211, -249, -275, -256, -267, -220, -112, -47, 142, 73, -152, -223, -99, 31, 45, 4, -149, -279, -312, -303, -334, -365, -349>>,
    <<169, 71, 57, 118, 113, 119, 88, 6, -49, -13, -30, 47, 138, 197, 212, 149, 68, 1, -17, -6, -36, -6, -29, -50, -110, -155, -179, -176, -110, -83, 112, -102, -18, 205, -298, -205, -275, -202, -183, -287, -82, -33, -25, -73, -145, -131, -152, -141, -147, -107, -80, -26, -11, 17, 50, 63, 117, 122, 92, 104, 123, 106, 84, 44, 14, -57, -81, -111, -165, -145, -154, -208, -227, -291, -212, -100, 76, 124, -104, -207, -70, 29, 47, 1, -157, -259, -316, -326, -332, -368, -380>>,
    <<196, 119, 79, 91, 103, 156, 119, 37, 2, -26, 9, 57, 96, 133, 187, 186, 121, 67, 38, 15, 25, -2, -31, -54, -109, -146, -155, -146, -110, 30, 118, -103, 22, 177, -245, -187, -242, -185, -218, -288, -109, -57, -48, -79, -93, -98, -93, -125, -105, -90, -59, -22, 4, 38, 86, 95, 150, 147, 132, 135, 118, 131, 103, 57, 31, -51, -81, -125, -126, -154, -129, -153, -216, -268, -271, -136, -19, 142, -7, -139, -123, -17, 33, -5, -112, -264, -315, -330, -357, -356, -344>>,
    <<245, 210, 123, 92, 90, 101, 117, 104, 46, 12, 71, 75, 79, 133, 158, 174, 207, 181, 136, 62, 60, 19, 19, -55, -91, -157, -144, -100, -39, 82, 16, -65, 81, 104, -210, -210, -225, -147, -173, -277, -135, -65, -31, -79, -55, -39, -61, -86, -97, -77, -78, -78, -35, 17, 58, 78, 139, 123, 130, 127, 82, 113, 111, 31, 4, -30, -101, -111, -162, -140, -129, -183, -209, -295, -288, -145, -51, 117, 93, -32, -81, -129, -128, -35, -68, -173, -319, -340, -341, -346, -372>>,
    <<279, 214, 147, 86, 40, 44, 25, 28, 29, 62, 52, 85, 70, 112, 91, 137, 216, 253, 235, 229, 186, 173, 177, 101, -7, -109, -109, 6, 109, 96, 14, -15, 177, -91, -156, -254, -203, -138, -182, -192, -124, -84, -85, -64, -31, -19, -15, -55, -82, -76, -124, -99, -64, -37, 4, 43, 70, 94, 105, 103, 82, 95, 86, 51, -18, -56, -119, -142, -153, -167, -171, -193, -238, -287, -283, -136, -71, 90, 90, 21, -28, -141, -206, -184, -126, -142, -236, -321, -350, -375, -346>>,
    <<287, 222, 180, 144, 46, 4, -17, -29, 12, 18, 40, 36, 29, 36, 76, 105, 128, 168, 182, 201, 157, 157, 176, 162, 103, 72, 70, 104, 109, 94, 33, 0, 297, -174, -202, -265, -170, -88, -152, -163, -134, -78, -61, -74, -27, -40, -6, -48, -36, -73, -91, -118, -113, -91, -61, -39, 28, 47, 54, 88, 74, 87, 92, 35, -16, -35, -88, -141, -126, -165, -213, -231, -275, -283, -238, -84, -58, 43, 48, -8, -39, -45, -121, -177, -201, -169, -187, -265, -276, -334, -329>>,
    <<255, 236, 195, 203, 140, 95, 43, -20, -27, 4, 9, 25, -12, 33, 6, 10, 2, 0, -14, -79, -158, -185, -147, -56, 17, 10, 43, 110, 135, 101, -49, 142, 238, -128, -269, -221, -142, -95, -132, -108, -96, -111, -74, -81, -35, -57, -44, -18, -12, -31, -51, -131, -136, -151, -138, -100, -58, 26, 49, 65, 62, 57, 74, 84, 30, -17, -60, -92, -139, -175, -220, -264, -306, -251, -169, -111, -10, 13, -15, -19, -41, -62, -70, -96, -136, -133, -181, -216, -218, -211, -215>>,
    <<228, 230, 202, 190, 166, 157, 142, 125, 55, 51, 11, 3, -5, 4, -35, -12, -41, -25, -16, 5, 0, 37, 58, 75, 74, 69, 61, 113, 129, -21, -61, 367, 49, -169, -275, -158, -105, -81, -138, -102, -82, -102, -84, -87, -61, -1, -54, -67, -71, -67, -67, -102, -120, -176, -173, -154, -98, -58, -21, 32, 32, 63, 82, 85, 53, 30, -19, -24, -80, -124, -183, -265, -276, -206, -94, -9, 15, 18, -33, -27, -27, -75, -86, -92, -82, -89, -145, -183, -192, -84, -56>>,
    <<253, 215, 224, 230, 193, 176, 172, 116, 108, 100, 80, 30, 7, -12, -10, -11, -34, -1, -35, 29, 88, 119, 122, 88, 66, 33, 68, 50, -68, 52, 343, 195, -96, -227, -183, -114, -62, -119, -143, -65, -45, -98, -111, -80, -63, -20, -4, -59, -77, -104, -74, -103, -102, -136, -175, -189, -190, -158, -104, -43, -25, 15, 32, 50, 56, 16, 8, -19, -76, -115, -163, -258, -213, -123, -60, 0, -6, -4, -6, 53, 39, -16, -41, -23, -58, -87, -55, -97, -187, -116, 26>>,
    <<185, 247, 227, 189, 215, 222, 199, 179, 139, 96, 86, 64, -25, -34, -48, -48, -65, -47, -6, 96, 136, 128, 112, 68, 17, 22, 37, 64, 215, 294, 163, -76, -122, -77, -56, -66, -72, -123, -140, -19, -10, -65, -97, -55, -69, -53, 17, -5, -29, -61, -125, -115, -104, -137, -157, -188, -212, -233, -219, -161, -118, -72, -20, 6, 16, 8, -9, -3, -40, -111, -206, -226, -165, -72, 7, 48, 18, -91, -27, -29, -23, 5, 40, 23, 15, -28, -49, -75, -87, -183, -82>>,
    <<142, 215, 255, 187, 193, 172, 210, 210, 172, 139, 78, 67, -19, -75, -63, -116, -100, -59, 61, 145, 132, 102, 73, 21, 69, 74, 167, 171, 153, 1, -78, -50, 6, 15, -23, -55, -115, -111, -28, 54, 44, -7, -49, -60, -56, -51, -76, -48, -29, -40, -78, -108, -144, -139, -138, -133, -199, -221, -261, -253, -213, -187, -129, -107, -59, -61, -51, -81, -68, -135, -182, -190, -54, -8, 40, 37, -74, -142, -153, -192, -130, -34, -51, -77, -96, -46, -29, -49, -55, -144, -254>>,
    <<176, 221, 255, 247, 156, 102, 137, 175, 192, 165, 51, 40, -5, -67, -114, -161, -121, -17, 58, 77, 80, 57, 107, 114, 145, 149, 117, 32, -2, -17, 18, 38, 29, 15, -41, -44, -4, 47, 121, 153, 122, 78, 33, -25, -49, -89, -114, -129, -79, -96, -79, -96, -95, -117, -149, -137, -164, -188, -204, -222, -219, -222, -182, -149, -130, -97, -70, -74, -112, -142, -133, -76, -18, 18, 82, -29, -95, -127, -153, -65, 83, 111, -53, -208, -254, -239, -176, -93, -77, -117, -220>>,
    <<235, 249, 262, 256, 216, 172, 55, 99, 188, 190, 99, 8, -31, -99, -150, -170, -112, 20, 27, 52, 83, 113, 124, 102, 90, 69, 63, 94, 47, 67, 75, 87, 139, 129, 173, 188, 210, 229, 213, 214, 145, 129, 75, 12, -15, -94, -131, -123, -129, -149, -130, -122, -106, -134, -135, -134, -145, -148, -169, -162, -160, -153, -143, -160, -114, -107, -92, -79, -78, -76, -45, -28, 18, 47, 71, 4, -79, -141, -57, 160, 246, 104, -84, -186, -262, -266, -250, -207, -137, -131, -144>>,
    <<229, 257, 278, 283, 227, 210, 138, 36, 106, 211, 100, -35, -42, -112, -202, -190, -94, -5, 48, 90, 95, 94, 91, 51, 63, 98, 87, 99, 164, 178, 210, 262, 311, 318, 335, 283, 278, 240, 227, 225, 218, 174, 157, 92, 19, -45, -106, -147, -145, -145, -144, -132, -104, -147, -151, -118, -162, -147, -154, -178, -176, -162, -144, -169, -165, -123, -101, -107, -61, -37, -53, 10, 41, 74, 95, 52, -83, -68, 143, 272, 173, 31, -89, -178, -244, -284, -196, -57, -129, -308, -240>>,
    <<157, 130, 169, 196, 206, 190, 157, 112, 98, 171, 104, -38, -76, -148, -184, -147, -21, -4, 47, 87, 92, 42, 43, 30, 70, 99, 136, 152, 180, 191, 233, 243, 268, 290, 284, 260, 280, 249, 212, 204, 204, 218, 180, 136, 81, 7, -94, -134, -127, -145, -131, -107, -148, -150, -131, -117, -59, -111, -118, -98, -109, -90, -100, -54, -53, -53, -64, -40, -26, -8, 0, 4, -20, 76, 178, 20, -134, 25, 266, 257, 145, 27, -69, -116, -184, -203, -188, -58, 82, -155, -359>>,
    <<101, 95, 23, 21, 73, 145, 154, 137, 87, 142, 144, -61, -59, -125, -166, -96, -19, 22, 55, 89, 57, 9, -15, 16, 73, 83, 118, 129, 121, 127, 97, 125, 159, 199, 220, 267, 266, 259, 235, 232, 218, 264, 245, 167, 65, 2, -115, -150, -142, -148, -175, -155, -168, -165, -175, -107, 46, 78, -4, -116, -150, -116, -75, -93, -64, -54, 13, 18, 6, 34, 4, -17, 0, 156, 226, -38, -160, 143, 306, 237, 124, 55, 17, -16, -98, -132, -177, -116, -44, -76, -181>>,
    <<1, 64, 79, -22, -41, 4, 102, 164, 117, 79, 108, 3, -62, -90, -105, -100, -12, 17, 60, 27, -13, -21, -16, 6, 62, 65, 91, 80, 71, 42, 64, 19, 24, 67, 110, 143, 220, 267, 279, 259, 280, 256, 269, 162, 18, -75, -180, -194, -208, -210, -208, -192, -184, -170, -181, -79, 97, 186, 110, -119, -271, -222, -181, -131, -153, -120, -84, -52, -12, -23, -36, -46, 12, 177, 186, -122, -153, 194, 249, 216, 184, 145, 76, 21, 7, -28, -64, -80, -19, -86, -49>>,
    <<-65, -20, 71, 58, 18, -39, 50, 151, 146, 60, 144, 65, -7, -26, -110, -100, -49, 24, 35, 2, -30, -48, -18, 36, 43, 63, 19, -38, -54, -98, -97, -75, -49, 22, 24, 57, 161, 270, 306, 270, 287, 301, 278, 129, -28, -148, -203, -235, -208, -222, -247, -226, -227, -199, -193, -80, 66, 169, 77, -103, -271, -285, -192, -131, -92, -92, -59, -84, -145, -144, -133, -75, 45, 150, 150, -233, -113, 221, 234, 200, 198, 158, 84, 30, 13, -20, -31, -59, 8, 63, 116>>,
    <<-81, -21, 36, 103, 102, 22, 34, 169, 165, 66, 128, 107, 79, 54, -47, -160, -54, 77, 43, -29, -32, -43, 18, 18, 34, 21, 11, 4, -64, -86, -120, -104, -127, -105, 1, 35, 44, 212, 310, 330, 320, 323, 273, 90, -74, -176, -212, -224, -251, -251, -237, -246, -203, -184, -158, -33, 77, 130, 30, -118, -261, -267, -237, -158, -86, -35, -15, -62, -144, -213, -278, -55, 109, 120, 137, -260, -112, 198, 222, 213, 217, 102, 40, -4, -14, 43, 17, -48, -27, -2, 24>>,
    <<-78, -36, 38, 84, 128, 74, 56, 174, 195, 122, 166, 187, 173, 170, 19, -125, 27, 105, 63, 11, -18, 0, 63, 126, 135, 143, 107, 82, 43, 4, 6, -25, -44, -90, -67, 25, 31, 120, 332, 361, 321, 328, 314, 135, -65, -168, -170, -224, -233, -256, -252, -242, -212, -191, -115, -15, 76, 99, 14, -123, -271, -295, -219, -176, -107, -79, -36, -38, -123, -262, -346, -43, 108, 90, 114, -312, -91, 182, 196, 241, 208, 97, 27, 14, 12, 22, 50, -25, -132, -218, -251>>,
    <<-86, -80, 14, 43, 99, 108, 105, 204, 255, 144, 167, 240, 256, 275, 137, 24, 121, 121, 61, 15, -22, 50, 116, 173, 225, 218, 225, 209, 150, 119, 83, 92, 33, -5, -22, -2, 67, 80, 346, 374, 347, 331, 326, 157, -18, -98, -140, -172, -244, -262, -258, -236, -215, -138, -61, -15, 80, 54, -9, -142, -255, -289, -263, -204, -170, -122, -92, -88, -151, -307, -389, -46, 111, 73, 102, -337, -122, 131, 204, 227, 218, 119, 56, 24, 11, 93, 69, -47, -220, -259, -227>>,
    <<-142, -117, -76, 11, 110, 187, 167, 242, 234, 116, 214, 292, 325, 322, 288, 157, 213, 151, 73, 13, 30, 36, 114, 173, 267, 293, 287, 239, 206, 201, 149, 168, 122, 98, 66, 30, 56, 102, 283, 418, 366, 341, 335, 211, 12, -71, -113, -183, -236, -250, -271, -265, -216, -171, -75, 13, 64, 74, -28, -141, -247, -319, -310, -296, -207, -184, -151, -134, -234, -383, -353, -1, 97, 81, 63, -361, -149, 103, 148, 231, 197, 141, 63, 25, 46, 87, 77, -29, -280, -280, -278>>,
    <<-131, -129, -60, 51, 126, 224, 223, 281, 203, 85, 215, 318, 348, 377, 356, 306, 279, 144, 65, 24, -11, 43, 117, 195, 233, 257, 298, 305, 280, 240, 230, 221, 202, 190, 144, 68, 80, 85, 254, 442, 397, 343, 317, 281, 61, -54, -100, -140, -205, -250, -264, -260, -226, -164, -97, -5, 44, 45, 5, -64, -217, -308, -350, -311, -275, -239, -193, -249, -328, -400, -268, 51, 89, 68, 23, -352, -189, 44, 132, 222, 211, 171, 82, 88, 59, 54, 77, -106, -334, -271, -257>>,
    <<-37, -67, 14, 104, 196, 238, 242, 217, 89, 52, 221, 330, 359, 408, 406, 327, 288, 167, 102, 19, -25, 23, 92, 151, 221, 248, 272, 254, 255, 243, 222, 243, 202, 195, 204, 152, 124, 106, 236, 436, 386, 345, 330, 256, 105, -11, -106, -128, -195, -229, -302, -283, -240, -208, -122, -89, 1, 50, 15, -5, -65, -197, -296, -346, -343, -305, -303, -304, -368, -368, -91, 104, 86, 111, -43, -373, -239, -61, 55, 190, 234, 188, 126, 111, 67, 74, 56, -215, -297, -290, -299>>,
    <<70, 72, 136, 224, 274, 254, 187, 90, 5, 46, 176, 294, 361, 385, 426, 366, 299, 181, 120, 10, -16, -15, 60, 109, 177, 204, 252, 272, 251, 246, 255, 221, 235, 232, 178, 166, 113, 103, 253, 441, 434, 326, 293, 248, 143, 2, -82, -148, -188, -226, -249, -236, -213, -194, -152, -123, -76, -43, 51, 43, 25, -31, -134, -252, -342, -347, -373, -389, -334, -173, 42, 116, 72, 74, -141, -345, -262, -158, -4, 145, 225, 193, 174, 126, 58, 40, -17, -247, -236, -253, -257>>,
    <<203, 237, 275, 318, 292, 211, 116, 4, -26, 68, 226, 311, 317, 378, 430, 341, 297, 219, 107, 5, -16, -43, 39, 98, 147, 187, 198, 205, 212, 206, 220, 205, 191, 158, 166, 144, 81, 119, 236, 411, 398, 342, 275, 187, 142, 53, -41, -100, -151, -158, -168, -170, -134, -123, -134, -131, -102, -85, -47, 14, 60, 89, 101, -12, -125, -246, -251, -172, -53, 48, 166, 128, 132, 53, -237, -348, -291, -169, -13, 141, 179, 204, 163, 100, 66, 25, -149, -185, -169, -215, -205>>,
    <<347, 350, 373, 319, 246, 132, 41, -13, 0, 118, 213, 309, 345, 412, 417, 325, 297, 197, 85, 4, -47, -55, -48, 51, 99, 141, 144, 180, 167, 180, 189, 144, 138, 128, 114, 90, 67, 46, 213, 368, 370, 311, 228, 189, 114, 106, -4, -82, -94, -110, -88, -67, -58, -90, -80, -91, -87, -77, -118, -87, -38, 46, 86, 176, 154, 90, 53, 88, 126, 139, 186, 150, 83, -121, -305, -307, -277, -188, -21, 135, 232, 209, 172, 83, -8, -124, -116, -114, -91, -170, -104>>,
    <<380, 353, 325, 250, 143, 78, 23, 40, 71, 194, 292, 333, 367, 377, 395, 355, 258, 194, 102, 22, -52, -72, -60, -27, 21, 55, 76, 129, 143, 169, 181, 146, 138, 97, 72, 61, 25, 29, 165, 355, 368, 295, 221, 154, 105, 85, 66, 20, -34, -30, -12, 17, 20, 31, 3, 24, -4, -47, -107, -113, -83, -52, 26, 111, 170, 161, 166, 174, 174, 191, 153, 104, -44, -214, -307, -313, -275, -172, 62, 207, 222, 176, 83, -67, -149, -115, -34, -14, -57, -137, -60>>,
    <<302, 259, 211, 122, 65, 63, 95, 105, 167, 280, 347, 345, 347, 386, 360, 270, 250, 210, 105, 30, -80, -52, -67, -37, 17, 2, 48, 120, 144, 215, 258, 205, 195, 126, 57, 48, 53, 51, 166, 292, 340, 311, 260, 161, 102, 53, 87, 51, 22, 43, 39, 80, 121, 134, 155, 147, 132, 99, 4, -35, -13, 25, 89, 114, 154, 182, 183, 204, 153, 72, 35, -69, -175, -303, -303, -288, -224, -4, 152, 177, 85, 37, -52, -131, -77, -14, -2, 39, -63, -81, -11>>,
    <<166, 131, 99, 89, 98, 146, 183, 217, 260, 328, 317, 290, 294, 332, 298, 242, 178, 172, 93, -14, -67, -69, -41, -23, 11, 45, 81, 141, 196, 240, 265, 266, 243, 149, 88, 110, 115, 120, 146, 274, 323, 304, 276, 184, 122, 55, 90, 92, 108, 91, 110, 102, 129, 216, 260, 309, 319, 276, 186, 156, 157, 171, 136, 130, 108, 92, 71, -12, -55, -125, -167, -214, -286, -287, -305, -262, -65, 48, 24, -37, -55, -14, 9, 10, 20, 15, 54, -9, -83, -84, -55>>,
    <<87, 73, 131, 181, 195, 220, 260, 293, 352, 292, 232, 221, 212, 229, 188, 130, 113, 154, 110, -9, -61, -90, -46, -15, 37, 33, 91, 136, 182, 214, 265, 269, 218, 193, 167, 178, 225, 207, 217, 247, 332, 309, 272, 222, 118, 46, 54, 78, 115, 118, 128, 134, 142, 159, 219, 245, 305, 277, 205, 179, 113, 118, 100, 90, 57, -10, -128, -189, -201, -226, -287, -269, -293, -288, -240, -110, -82, -88, -94, -52, 17, 56, 37, 58, 47, 86, 2, -67, -88, -92, -57>>,
    <<131, 188, 255, 250, 268, 282, 305, 335, 308, 228, 159, 97, 159, 150, 132, 55, 49, 77, 110, 58, -14, -73, -87, -96, -20, 6, 54, 114, 160, 204, 239, 236, 273, 242, 210, 257, 279, 325, 278, 279, 328, 339, 315, 263, 165, 99, 44, 69, 121, 124, 134, 86, 61, 58, 50, 17, 66, 50, 8, -13, 28, 15, 6, -43, -104, -176, -207, -264, -286, -289, -272, -299, -274, -239, -184, -135, -138, -74, -1, 28, 33, 30, 44, 66, 82, 38, -13, -82, -113, -80, -124>>,
    <<257, 291, 334, 312, 314, 298, 334, 292, 186, 97, 70, 48, 66, 76, 23, -50, -76, -3, 96, 64, -15, -25, -77, -112, -113, -86, -21, 70, 164, 205, 243, 252, 261, 268, 289, 284, 304, 332, 374, 311, 306, 296, 314, 288, 184, 130, 20, 34, 85, 75, 93, 74, 7, -22, -57, -92, -81, -68, -74, -99, -77, -73, -90, -149, -198, -206, -270, -316, -324, -305, -298, -249, -209, -153, -130, -105, -55, 18, 31, 66, 49, 40, 45, 55, 16, -11, -28, -60, -81, -107, -96>>,
    <<337, 324, 334, 310, 303, 310, 269, 163, 78, 44, 37, 31, 54, 47, 3, -34, -133, -95, 31, 74, 44, -12, -79, -114, -141, -144, -118, -59, 27, 127, 238, 255, 286, 329, 314, 329, 371, 385, 363, 338, 311, 317, 303, 281, 232, 121, 69, 19, -1, 58, 69, 37, -15, -55, -90, -85, -78, -89, -109, -100, -127, -127, -127, -146, -204, -231, -275, -185, -125, -72, -57, -65, -84, -51, -40, -29, 23, 49, 36, 62, 49, -7, -26, -30, -11, -22, -9, -67, -69, -69, -51>>,
    <<294, 319, 291, 281, 260, 227, 161, 61, 24, 6, 16, 38, 51, 34, 6, -39, -121, -172, -20, 58, 38, -20, -49, -78, -98, -117, -113, -79, -50, 42, 115, 205, 268, 308, 334, 345, 345, 388, 372, 350, 306, 297, 319, 299, 240, 159, 76, 8, -25, 2, 4, -8, -68, -103, -73, -59, -88, -69, -88, -102, -84, -133, -135, -178, -207, -194, -102, -8, -30, -12, -20, -19, 12, -14, 32, 42, 44, 60, 58, 35, -18, -52, -77, -99, -55, -35, -24, -30, -38, -60, -8>>,
    <<231, 209, 207, 172, 152, 120, 87, 16, 42, 5, 63, 64, 57, 63, 25, -23, -94, -177, -114, 12, 45, -16, -54, -64, -56, -53, -69, -37, -45, -11, 43, 134, 210, 252, 289, 329, 356, 362, 389, 394, 329, 296, 290, 293, 252, 174, 118, 9, -55, -40, -54, -65, -121, -91, -80, -72, -86, -87, -118, -121, -115, -127, -133, -156, -203, -144, -58, -57, -46, -56, -47, -18, -12, 24, 10, 19, 40, 65, 12, -14, -90, -121, -112, -96, -66, -11, -14, -35, -60, -62, 45>>,
    <<100, 71, 72, 91, 73, 57, 23, 18, 15, 59, 51, 79, 44, 80, 70, 17, -42, -175, -156, -16, 42, 32, 2, 6, -22, -13, -12, -12, -8, 30, -6, 54, 120, 233, 266, 309, 319, 368, 385, 405, 345, 302, 287, 259, 249, 158, 123, 61, -1, -65, -74, -96, -120, -117, -100, -116, -101, -93, -99, -110, -109, -110, -114, -130, -69, 0, 49, 16, -59, -111, -124, -94, -79, -13, -10, 58, 43, 65, -25, -93, -141, -167, -140, -97, -68, -11, -47, -43, -76, -91, -12>>,
    <<-11, -14, 7, 11, 11, 24, 14, 44, 54, 42, 73, 55, 63, 85, 95, 93, 17, -105, -186, -43, 60, 56, 6, 34, 2, 1, 28, 41, 52, 14, 33, 42, 87, 152, 236, 271, 300, 336, 376, 411, 378, 307, 275, 241, 214, 172, 123, 71, -13, -54, -79, -128, -114, -108, -134, -90, -97, -122, -86, -105, -122, -105, -56, -12, 117, 255, 280, 202, 97, 8, -80, -104, -95, -28, 9, 53, 81, 25, -50, -104, -153, -174, -135, -111, -67, -71, -78, -115, -103, -130, -68>>,
    <<-51, -88, -29, -23, -12, -12, 38, 42, 24, 39, 82, 68, 90, 78, 74, 116, 69, -63, -174, -70, 66, 54, 34, 35, 57, 65, 59, 71, 32, 38, 24, 57, 114, 161, 225, 286, 298, 342, 386, 402, 387, 300, 250, 216, 185, 134, 93, 39, -15, -45, -106, -102, -135, -103, -104, -88, -84, -95, -74, -95, -120, -71, 21, 142, 241, 323, 331, 288, 222, 136, 17, -52, -36, -28, 38, 100, 55, -14, -102, -153, -179, -168, -113, -135, -96, -126, -141, -146, -153, -144, -142>>,
    <<-101, -116, -101, -64, -48, -10, 13, 59, 64, 58, 68, 50, 91, 84, 117, 115, 84, 4, -145, -61, 75, 82, 73, 38, 65, 42, 77, 78, 56, 61, 49, 56, 105, 162, 256, 284, 321, 333, 363, 385, 374, 286, 233, 178, 135, 106, 54, 26, -41, -66, -109, -117, -123, -129, -109, -116, -72, -77, -88, -79, -70, 6, 116, 203, 266, 268, 285, 248, 235, 148, 77, -30, -69, -53, 17, 39, 19, -36, -96, -152, -157, -160, -131, -137, -121, -147, -120, -160, -150, -152, -147>>,
    <<-163, -159, -144, -108, -52, -29, 27, 78, 88, 68, 54, 73, 86, 94, 89, 83, 112, 45, -109, -48, 84, 78, 90, 94, 81, 105, 95, 60, 82, 72, 74, 82, 144, 219, 293, 330, 345, 337, 374, 391, 352, 278, 195, 132, 139, 95, 32, -25, -71, -85, -161, -168, -174, -162, -129, -89, -94, -69, -83, -33, -5, 79, 179, 235, 243, 226, 245, 223, 164, 48, -11, -101, -130, -123, -35, 11, -45, -78, -104, -126, -111, -109, -117, -119, -130, -137, -133, -165, -125, -174, -173>>,
    <<-192, -184, -172, -132, -34, 8, 42, 76, 95, 93, 76, 89, 60, 102, 89, 108, 110, 22, -98, -39, 131, 118, 92, 93, 95, 64, 95, 69, 73, 54, 60, 46, 96, 239, 304, 338, 383, 379, 349, 356, 340, 267, 213, 138, 87, 82, 3, -62, -103, -126, -159, -163, -173, -134, -154, -99, -96, -58, -63, -3, 105, 176, 221, 198, 215, 181, 194, 162, 39, -66, -172, -189, -232, -145, -57, -44, -59, -95, -110, -77, -59, -104, -125, -170, -169, -160, -142, -119, -134, -165, -193>>,
    <<-227, -184, -160, -106, -28, 23, 41, 69, 76, 107, 91, 117, 92, 88, 92, 102, 99, 29, -118, -12, 140, 122, 100, 67, 90, 84, 102, 85, 73, 42, 28, 40, 93, 210, 322, 359, 390, 366, 357, 351, 338, 270, 191, 120, 80, 46, -4, -61, -119, -139, -137, -185, -158, -147, -148, -109, -73, -45, 15, 84, 174, 215, 253, 238, 215, 171, 123, 62, -54, -183, -229, -277, -261, -146, -65, -69, -87, -77, -62, -42, -40, -78, -102, -159, -164, -131, -114, -153, -151, -204, -189>>,
    <<-213, -172, -119, -83, -28, -15, 18, 64, 101, 104, 119, 90, 86, 92, 108, 76, 74, -28, -94, 19, 141, 106, 85, 76, 78, 88, 102, 116, 83, 69, 17, 35, 86, 151, 294, 345, 387, 402, 343, 343, 349, 266, 201, 128, 50, 59, 2, -48, -85, -115, -162, -180, -152, -132, -113, -92, -46, 6, 30, 151, 250, 295, 257, 258, 244, 220, 133, -26, -113, -221, -262, -258, -215, -153, -96, -73, -84, -36, -25, 17, -40, -68, -145, -152, -145, -119, -142, -163, -154, -191, -201>>,
    <<-189, -190, -138, -86, -36, -39, 30, 35, 83, 94, 91, 103, 106, 89, 89, 99, 61, -50, -124, 47, 155, 100, 83, 83, 86, 107, 103, 88, 102, 66, 45, 71, 49, 123, 238, 359, 369, 383, 353, 323, 313, 260, 215, 129, 60, 68, 14, -17, -64, -109, -128, -131, -124, -87, -81, -39, -9, 52, 127, 222, 275, 303, 324, 322, 296, 274, 139, -34, -163, -223, -262, -267, -204, -110, -97, -79, -54, -35, 2, -5, -62, -99, -139, -141, -129, -134, -138, -132, -145, -148, -129>>,
    <<-174, -165, -157, -100, -62, -42, 23, 59, 60, 116, 127, 115, 87, 92, 91, 63, 40, -104, -79, 79, 99, 96, 68, 77, 60, 101, 89, 101, 79, 102, 61, 51, 74, 46, 152, 302, 350, 368, 341, 314, 273, 255, 231, 142, 79, 86, 48, 17, -19, -63, -57, -65, -42, -42, -7, 1, 67, 111, 183, 260, 281, 302, 307, 360, 349, 304, 156, -45, -182, -215, -223, -195, -182, -88, -69, -40, -14, -17, -6, -30, -28, -79, -77, -97, -119, -108, -96, -96, -106, -87, -60>>,
    <<-111, -108, -69, -92, -54, -12, 13, 25, 58, 135, 103, 120, 99, 75, 87, 73, -13, -152, -62, 92, 118, 84, 42, 36, 61, 71, 62, 59, 77, 91, 126, 102, 64, 50, 85, 212, 316, 349, 326, 252, 265, 203, 216, 172, 129, 99, 57, 34, 46, -5, 21, 17, -3, 60, 100, 83, 152, 220, 214, 259, 265, 301, 336, 324, 329, 227, 100, -17, -115, -202, -194, -164, -120, -87, -44, -59, -18, -3, -13, -8, 20, 30, 14, 14, -4, 31, -11, 24, 9, -27, -27>>,
    <<-53, -45, -51, -53, -31, -7, 2, 37, 82, 99, 140, 132, 112, 103, 47, 44, -60, -142, -81, 82, 119, 43, 25, 34, 15, 10, 28, 66, 109, 99, 118, 117, 98, 66, 39, 155, 264, 301, 287, 242, 217, 183, 164, 190, 158, 153, 121, 93, 72, 84, 61, 55, 88, 129, 152, 217, 249, 247, 249, 233, 235, 268, 274, 296, 280, 209, 98, -34, -116, -176, -210, -109, -65, -79, -17, -2, -26, -42, -19, 6, 38, 46, 43, 63, 91, 61, 57, 34, 42, -13, -1>>,
    <<-4, 7, 9, -47, -22, -4, 5, 6, 62, 119, 119, 144, 116, 99, 64, 0, -94, -152, -51, 100, 97, 39, 18, 4, 12, -28, 23, 42, 66, 126, 150, 86, 85, 57, 26, 111, 229, 303, 269, 230, 219, 185, 177, 165, 214, 177, 178, 164, 138, 127, 127, 135, 158, 184, 235, 242, 272, 255, 204, 193, 198, 171, 234, 221, 229, 163, 86, -10, -89, -162, -180, -58, -19, -67, -11, -29, -45, -53, -4, 21, 29, 2, 42, 26, 28, -5, -51, -51, -52, -95, -92>>,
    <<10, 6, -12, -56, -45, -6, 9, 69, 129, 148, 157, 169, 149, 125, 95, 7, -114, -152, -46, 94, 65, 52, -2, 5, 5, -5, 14, 44, 99, 112, 106, 118, 119, 57, 49, 51, 168, 257, 273, 246, 205, 167, 162, 159, 182, 194, 205, 212, 221, 200, 222, 221, 241, 283, 297, 293, 267, 263, 225, 155, 140, 123, 124, 155, 199, 140, 66, -19, -78, -120, -149, -15, 4, -44, -20, -47, -67, -59, 77, 125, 97, 122, 196, 223, 110, -11, -90, -192, -220, -271, -262>>,
    <<60, -8, -62, -68, -27, -7, 54, 124, 159, 186, 210, 192, 188, 173, 130, 7, -77, -88, 19, 88, 77, 49, 31, 5, 24, 47, 42, 85, 117, 113, 157, 147, 78, 73, 59, 60, 132, 258, 304, 257, 234, 176, 163, 146, 154, 175, 220, 250, 243, 293, 272, 287, 281, 288, 291, 307, 247, 241, 159, 125, 92, 108, 81, 136, 136, 111, 77, -8, -62, -111, -149, 11, 16, -38, -28, -69, -76, 71, 236, 155, 150, 228, 368, 368, 291, 186, 127, 63, -47, -128, -170>>,
    <<10, -42, -34, 31, 25, 106, 107, 175, 227, 262, 253, 257, 249, 216, 133, 13, -50, -38, 20, 98, 82, 74, 47, 67, 45, 73, 84, 82, 137, 156, 131, 115, 131, 96, 62, 67, 98, 247, 331, 303, 220, 200, 127, 124, 133, 173, 196, 245, 234, 273, 322, 337, 320, 343, 317, 267, 269, 204, 143, 97, 80, 88, 126, 132, 108, 109, 87, 2, -52, -73, -114, 55, 62, -22, -20, -33, -24, 279, 251, 136, 175, 261, 343, 308, 256, 247, 179, 138, 121, 27, 6>>,
    <<-19, 26, 59, 86, 107, 151, 156, 186, 237, 277, 293, 290, 263, 246, 157, 50, -36, -26, 65, 102, 116, 95, 50, 53, 76, 109, 108, 127, 123, 135, 152, 143, 100, 87, 74, 75, 88, 235, 340, 320, 234, 186, 158, 105, 94, 100, 130, 177, 207, 246, 281, 314, 327, 346, 308, 288, 231, 183, 166, 154, 149, 179, 166, 154, 146, 108, 86, 2, -45, -48, -71, 86, 96, 4, -18, -68, 123, 383, 158, 113, 189, 312, 304, 281, 273, 237, 183, 142, 115, 72, 23>>,
    <<58, 107, 112, 142, 142, 149, 125, 180, 215, 262, 265, 295, 291, 211, 162, 50, 21, 12, 90, 115, 90, 99, 86, 90, 99, 114, 141, 159, 142, 141, 179, 146, 131, 87, 91, 73, 90, 210, 326, 335, 234, 209, 138, 114, 63, 101, 115, 158, 207, 224, 252, 318, 346, 366, 365, 282, 212, 198, 193, 201, 210, 248, 266, 210, 151, 120, 106, 34, -67, -48, -53, 72, 100, -14, -39, -27, 294, 281, 100, 161, 290, 325, 282, 294, 240, 225, 132, 84, 30, 14, 14>>,
    <<117, 146, 152, 126, 87, 90, 120, 151, 199, 249, 268, 239, 262, 223, 164, 100, 34, 71, 114, 128, 112, 87, 90, 84, 118, 103, 130, 138, 150, 139, 156, 147, 109, 116, 78, 62, 54, 173, 329, 326, 232, 173, 141, 106, 66, 81, 102, 135, 179, 247, 264, 338, 360, 404, 350, 303, 223, 211, 234, 267, 299, 307, 283, 250, 196, 131, 116, 56, -35, -76, -71, 67, 33, 6, -42, -19, 393, 179, 137, 238, 300, 309, 262, 174, 124, 52, 11, -35, -75, -107, -98>>,
    <<193, 158, 120, 103, 83, 74, 89, 101, 168, 197, 251, 251, 211, 196, 147, 126, 71, 103, 108, 132, 123, 99, 104, 106, 93, 149, 157, 177, 193, 190, 202, 144, 104, 90, 46, 57, 59, 133, 280, 303, 228, 135, 106, 86, 107, 123, 127, 192, 195, 256, 266, 313, 362, 379, 365, 290, 221, 224, 280, 340, 330, 319, 279, 242, 150, 147, 136, 125, 7, -70, -83, 23, 42, -17, -63, 42, 418, 146, 159, 310, 288, 259, 145, 79, 20, -45, -117, -146, -197, -179, -219>>,
    <<215, 166, 114, 81, 62, 106, 98, 85, 112, 145, 195, 203, 185, 178, 183, 167, 98, 113, 133, 177, 133, 130, 154, 116, 153, 171, 167, 179, 189, 212, 233, 196, 118, 77, 61, 4, 19, 110, 282, 232, 151, 116, 129, 90, 109, 132, 179, 213, 234, 254, 273, 283, 342, 362, 320, 256, 225, 231, 289, 286, 314, 284, 225, 162, 137, 168, 164, 195, 99, -98, -97, -10, 10, -23, -24, 93, 395, 142, 242, 327, 242, 170, 51, 10, -97, -160, -177, -183, -218, -229, -240>>,
    <<229, 165, 89, 111, 137, 134, 156, 132, 81, 75, 146, 171, 201, 179, 187, 193, 171, 165, 178, 158, 150, 140, 169, 152, 187, 176, 204, 248, 249, 267, 276, 229, 163, 98, 31, 0, 17, 127, 234, 208, 99, 94, 84, 111, 115, 150, 196, 211, 222, 245, 259, 280, 343, 338, 308, 220, 179, 213, 256, 239, 214, 192, 163, 155, 140, 152, 196, 220, 196, -16, -97, -42, -17, 1, -10, 144, 375, 160, 287, 306, 230, 106, 10, -63, -149, -164, -204, -196, -205, -208, -204>>,
    <<236, 151, 125, 143, 146, 169, 226, 195, 109, 48, 90, 157, 175, 158, 172, 172, 170, 194, 203, 218, 202, 163, 176, 210, 196, 241, 217, 276, 246, 294, 270, 268, 185, 101, 48, -18, -1, 132, 241, 192, 64, 80, 72, 126, 154, 162, 182, 202, 240, 281, 275, 314, 305, 300, 254, 220, 205, 167, 210, 160, 196, 195, 201, 182, 183, 208, 253, 263, 231, 78, -88, -95, -25, -7, 20, 177, 381, 173, 335, 292, 175, 42, 2, -94, -149, -136, -175, -178, -189, -160, -186>>,
    <<210, 125, 93, 128, 182, 216, 212, 206, 152, 39, 66, 116, 146, 171, 145, 165, 178, 210, 227, 233, 229, 211, 226, 212, 219, 212, 225, 254, 263, 253, 248, 244, 184, 134, 53, 17, -24, 112, 260, 173, 83, 84, 107, 129, 157, 184, 231, 243, 258, 282, 286, 309, 315, 294, 249, 207, 223, 191, 207, 189, 205, 227, 234, 239, 244, 245, 252, 293, 271, 180, -28, -68, -47, -6, 62, 119, 367, 204, 369, 279, 165, 38, -14, -74, -121, -159, -167, -155, -166, -158, -168>>,
    <<185, 90, 62, 139, 181, 177, 207, 213, 130, -15, 32, 70, 95, 126, 152, 161, 180, 184, 225, 250, 251, 236, 214, 194, 236, 213, 208, 215, 246, 212, 228, 195, 180, 103, 31, 4, 22, 128, 241, 186, 96, 116, 119, 153, 165, 214, 243, 247, 291, 300, 266, 295, 289, 229, 256, 266, 227, 273, 241, 237, 215, 241, 234, 185, 188, 202, 273, 325, 337, 252, 18, -68, -40, 47, 51, 108, 423, 206, 375, 290, 171, 82, 20, -30, -87, -120, -130, -151, -128, -150, -148>>,
    <<162, 44, 60, 108, 175, 183, 201, 173, 66, -30, 6, 43, 88, 102, 160, 180, 207, 225, 208, 232, 255, 249, 208, 201, 215, 207, 200, 211, 207, 193, 189, 156, 125, 72, 42, 4, -1, 178, 276, 217, 119, 134, 125, 151, 176, 217, 265, 243, 279, 244, 206, 241, 213, 227, 250, 253, 256, 226, 185, 197, 149, 139, 155, 184, 174, 224, 300, 347, 396, 249, 75, -2, -62, 57, 94, 65, 399, 247, 402, 312, 181, 90, 68, -9, -29, -73, -84, -91, -75, -105, -129>>,
    <<135, 65, 21, 17, 114, 149, 128, 56, -17, -31, 26, 48, 53, 105, 125, 145, 171, 198, 225, 220, 236, 213, 219, 198, 213, 185, 176, 191, 157, 139, 175, 157, 131, 71, 13, -38, 26, 198, 310, 197, 138, 147, 159, 158, 195, 239, 247, 244, 201, 217, 225, 240, 269, 232, 258, 254, 198, 195, 153, 144, 157, 137, 163, 190, 230, 284, 318, 393, 424, 257, 119, 30, -56, 69, 115, 81, 432, 275, 400, 305, 244, 126, 95, 6, -9, -20, -52, -78, -80, -95, -124>>,
    <<125, 106, 47, 39, 11, 48, -3, 2, -24, -26, 2, 60, 90, 83, 113, 147, 185, 181, 180, 206, 182, 211, 209, 168, 164, 155, 188, 156, 176, 155, 156, 150, 127, 71, 1, 0, 52, 195, 287, 223, 175, 164, 192, 179, 227, 273, 243, 206, 196, 214, 222, 265, 294, 286, 233, 219, 208, 186, 179, 166, 176, 159, 204, 228, 302, 305, 348, 405, 427, 271, 146, 62, -57, 112, 124, 12, 437, 316, 381, 293, 270, 140, 70, 47, -1, 3, -43, -80, -108, -130, -167>>,
    <<128, 105, 122, 83, 61, 42, 29, 2, 25, 29, 40, 64, 79, 93, 123, 114, 159, 151, 175, 187, 155, 180, 161, 167, 142, 145, 157, 161, 177, 163, 164, 137, 126, 71, 23, 6, 81, 216, 293, 205, 167, 176, 159, 203, 257, 291, 250, 199, 220, 236, 265, 280, 289, 297, 264, 232, 192, 169, 208, 186, 201, 206, 232, 262, 304, 326, 317, 402, 421, 283, 176, 105, -66, 157, 155, 42, 465, 336, 380, 301, 293, 182, 118, 47, 12, -13, -49, -62, -87, -136, -193>>,
    <<76, 95, 130, 138, 124, 119, 97, 86, 70, 74, 53, 71, 54, 86, 103, 112, 137, 162, 122, 136, 127, 128, 150, 131, 122, 119, 111, 113, 137, 152, 169, 144, 79, 63, 57, 40, 93, 241, 275, 179, 167, 139, 161, 203, 290, 286, 255, 205, 242, 272, 276, 301, 323, 322, 267, 201, 182, 201, 199, 211, 236, 254, 277, 277, 291, 261, 301, 412, 381, 274, 243, 91, -10, 184, 168, 63, 490, 362, 383, 335, 315, 226, 156, 78, 18, 1, -35, -52, -116, -159, -213>>,
    <<94, 95, 91, 129, 145, 119, 141, 124, 86, 81, 76, 50, 20, 25, 51, 99, 149, 192, 200, 146, 123, 116, 131, 81, 61, 58, 51, 72, 110, 136, 117, 120, 90, 85, 75, 75, 139, 260, 293, 144, 123, 137, 159, 268, 322, 327, 263, 234, 296, 295, 295, 319, 331, 307, 273, 241, 231, 189, 211, 226, 230, 255, 265, 237, 239, 233, 280, 404, 340, 292, 272, 93, 25, 256, 158, 84, 466, 360, 331, 325, 305, 284, 214, 92, 45, 16, -44, -57, -125, -189, -222>>,
    <<36, 26, 52, 95, 127, 141, 124, 110, 71, 46, 22, 23, -14, 5, 41, 72, 189, 322, 293, 193, 139, 146, 144, 94, 61, 51, 18, 50, 46, 70, 97, 84, 90, 88, 120, 122, 147, 257, 291, 113, 125, 152, 177, 296, 346, 328, 297, 272, 314, 292, 305, 321, 297, 325, 288, 257, 243, 233, 234, 258, 258, 257, 245, 236, 202, 220, 294, 354, 335, 278, 265, 28, 62, 247, 144, 70, 467, 344, 339, 361, 330, 327, 267, 143, 75, 16, -2, -45, -128, -172, -220>>,
    <<-48, -11, 28, 25, 82, 85, 89, 94, 69, 43, 24, 67, 96, 170, 177, 164, 189, 327, 366, 263, 151, 114, 126, 121, 95, 61, 32, -2, 7, 46, 84, 55, 85, 95, 146, 163, 184, 269, 298, 108, 116, 145, 183, 297, 336, 347, 294, 278, 308, 290, 288, 322, 317, 290, 312, 280, 264, 246, 275, 253, 277, 271, 247, 229, 236, 248, 298, 332, 314, 283, 213, -2, 113, 266, 106, 72, 454, 354, 354, 358, 371, 346, 346, 244, 132, 23, -14, -41, -126, -196, -242>>,
    <<38, 30, 47, 73, 66, 64, 106, 80, 107, 117, 142, 180, 213, 209, 201, 166, 224, 306, 355, 310, 207, 139, 93, 98, 82, 79, 82, 51, 61, 21, 36, 46, 102, 127, 182, 147, 172, 315, 290, 118, 114, 171, 202, 304, 347, 319, 320, 285, 289, 309, 286, 308, 332, 303, 315, 283, 306, 285, 309, 298, 295, 270, 246, 230, 227, 264, 282, 305, 267, 267, 175, -56, 146, 266, 84, 122, 407, 342, 369, 377, 378, 390, 408, 322, 167, 87, 28, -51, -93, -144, -164>>,
    <<70, 69, 58, 61, 81, 105, 124, 138, 117, 140, 149, 147, 149, 147, 132, 127, 209, 291, 333, 290, 233, 128, 88, 95, 84, 90, 93, 106, 112, 117, 93, 120, 152, 179, 213, 206, 192, 327, 288, 133, 164, 194, 223, 273, 338, 293, 295, 280, 321, 310, 321, 325, 299, 297, 283, 285, 322, 332, 331, 337, 337, 334, 317, 271, 288, 261, 296, 272, 230, 232, 73, -52, 149, 231, 35, 116, 387, 323, 385, 417, 392, 408, 422, 391, 264, 147, 58, -2, -59, -83, -116>>,
    <<-53, -46, -20, 22, -3, 27, 22, 30, 32, 60, 37, 49, 63, 50, 143, 181, 219, 291, 264, 212, 164, 165, 95, 86, 97, 135, 163, 189, 208, 246, 261, 255, 277, 259, 255, 218, 212, 317, 327, 168, 156, 180, 264, 308, 289, 294, 237, 307, 296, 321, 341, 319, 319, 304, 277, 257, 274, 303, 349, 326, 330, 323, 331, 322, 277, 321, 315, 278, 257, 213, -4, -37, 206, 166, 4, 138, 354, 307, 403, 420, 403, 426, 465, 448, 325, 216, 117, 96, 76, 40, 1>>,
    <<-151, -132, -135, -122, -70, -58, 2, 35, 53, 55, 54, 63, 54, 30, 63, 145, 233, 281, 246, 217, 147, 122, 80, 73, 115, 108, 193, 217, 254, 312, 329, 345, 364, 349, 279, 238, 201, 340, 355, 182, 192, 227, 248, 272, 275, 259, 263, 273, 299, 328, 323, 347, 306, 301, 247, 241, 270, 282, 295, 333, 339, 329, 307, 320, 319, 308, 290, 256, 234, 155, -103, 32, 187, 138, -15, 146, 321, 306, 421, 460, 421, 430, 403, 442, 367, 283, 203, 184, 160, 151, 114>>,
    <<-143, -130, -111, -66, -57, -5, -13, 44, 50, 33, 52, 70, 128, 87, 146, 151, 102, 195, 307, 312, 209, 166, 118, 79, 59, 122, 185, 266, 296, 271, 290, 318, 321, 344, 339, 293, 226, 358, 318, 176, 198, 243, 231, 285, 280, 244, 256, 257, 326, 327, 364, 322, 291, 304, 244, 250, 279, 319, 322, 358, 367, 350, 351, 338, 339, 358, 308, 259, 235, 78, -70, 91, 196, 76, -42, 152, 274, 300, 436, 473, 436, 400, 365, 405, 375, 315, 293, 273, 256, 246, 262>>
  >>
HeightX0 == 0 - 60
HeightZ0 == 0 - 100
HeightStep == 1 + 1

-----------------------------------------------------------------------------
(* Height field: utils/noise.ts simpleNoise, Rover.tsx getBaseTerrainHeight *)

\* the interpolation of the four lattice samples c around a point at (fx, fz) of
\* its cell
Bilinear(c, fx, fz, cell) ==
  Quot(Quot(c[0] * (cell - fx) + c[1] * fx, cell) * (cell - fz)
         + Quot(c[2] * (cell - fx) + c[3] * fx, cell) * fz, cell)

\* simpleNoise(wx, wz, 42) - 2.0, interpolated between the lattice samples
getBaseTerrainHeight(wx, wz) ==
  LET cell == HeightStep * LenUnit
      gx == wx - HeightX0 * LenUnit
      gz == wz - HeightZ0 * LenUnit
  IN  Bilinear([p \in 0..3 |->
                  HeightSamples[FloorDiv(gx, cell) + 1 + (p % 2)]
                               [FloorDiv(gz, cell) + 1 + (p \div 2)]],
               gx % cell, gz % cell, cell)

-----------------------------------------------------------------------------
(* Chunk obstacle generator: Rover.tsx getObstaclesInChunk *)

CHUNK_SIZE == 80
RUNNABLE_ROCK_SCALE == 250
SAFE_ZONE == 2500
GIANT_SCALE == 800

ROCK_LAYERS ==
  << [count |-> 1,  minScale |-> 2200, maxScale |-> 3200],
     [count |-> 3,  minScale |-> 900,  maxScale |-> 1500],
     [count |-> 25, minScale |-> 150,  maxScale |-> 350] >>

\* seedBase = offsetX * 123.45 + offsetZ * 678.91, in 1/100
SeedBase(offsetX, offsetZ) == offsetX * 12345 + offsetZ * 67891

\* pseudoRandom(idx) of the closure over seedBase: frac(sin(seedBase + idx) * 43758.5453)
pseudoRandom(seedBase, idx) == SinHashTable[seedBase][idx + 1]

\* the draws r1, r2, r3 of rock i: pseudoRandom(i * 3 + 0), (i * 3 + 1), (i * 3 + 2)
Draws(seedBase, i) == [j \in 0..2 |-> pseudoRandom(seedBase, i * 3 + j)]

\* minScale + r3 * (maxScale - minScale)
ScaleOf(minScale, maxScale, r3) == minScale + (r3 * (maxScale - minScale)) \div RandUnit

\* (r - 0.5) * chunkSize
LocalCoord(r, chunkSize) == FloorDiv((r - RandUnit \div 2) * (chunkSize * LenUnit), RandUnit)

\* a path clearance that forgets the width of the corridor
PathClearanceNoCorridor(s, r1, wx) ==
  IF s > GIANT_SCALE /\ Abs(wx) < SAFE_ZONE
  THEN (IF wx >= 0 THEN 1 ELSE -1) * ((r1 * 10 * LenUnit) \div RandUnit)
  ELSE wx

\* a clearance that puts the rock on the edge of the corridor
PathClearanceToEdge(s, r1, wx) ==
  IF s > GIANT_SCALE /\ Abs(wx) < SAFE_ZONE
  THEN (IF wx >= 0 THEN 1 ELSE -1) * SAFE_ZONE
  ELSE wx

\* lines 522-529: giant rocks leave the corridor |x| < 25
PathClearance(s, r1, wx) ==
  IF s > GIANT_SCALE /\ Abs(wx) < SAFE_ZONE
  THEN (IF wx >= 0 THEN 1 ELSE -1) * (SAFE_ZONE + (r1 * 10 * LenUnit) \div RandUnit)
  ELSE wx

\* lines 514-537: the obstacle pushed for rock i of a layer, from its draws r
Rock(cx, cz, layer, i, r) ==
  [id     |-> <<cx, cz, i>>,
   x      |-> PathClearance(ScaleOf(layer.minScale, layer.maxScale, r[2]), r[0],
                            LocalCoord(r[0], CHUNK_SIZE) + cx * CHUNK_SIZE * LenUnit),
   z      |-> LocalCoord(r[1], CHUNK_SIZE) + cz * CHUNK_SIZE * LenUnit,
   radius |-> ScaleOf(layer.minScale, layer.maxScale, r[2]) + 150,
   scale  |-> ScaleOf(layer.minScale, layer.maxScale, r[2])]

\* lines 512-539: the rocks of one layer
LayerRocks(cx, cz, layer) ==
  [k \in 1..layer.count |->
     Rock(cx, cz, layer, k - 1,
          Draws(SeedBase(cx * CHUNK_SIZE, cz * CHUNK_SIZE), k - 1))]

\* a generator whose draws depend on how many frames have run
getObstaclesInChunkStateful(cx, cz) ==
  FoldRange(LAMBDA acc, l : acc \o LayerRocks(cx + (frameCount % 2), cz, ROCK_LAYERS[l]),
            1, Len(ROCK_LAYERS), <<>>)

getObstaclesInChunk(cx, cz) ==
  FoldRange(LAMBDA acc, l : acc \o LayerRocks(cx, cz, ROCK_LAYERS[l]),
            1, Len(ROCK_LAYERS), <<>>)

-----------------------------------------------------------------------------
(* Rock renderer: ScatteredRocks.tsx useLayoutEffect, Scene.tsx InfiniteTerrain *)

\* lines 58-74 of ScatteredRocks.tsx: the local x of an instance after path
\* clearance, from its scale, draw r1 and local x
ClearedLocalX(scale, r1, localX, offsetX) ==
  IF scale > 800 /\ Abs(localX + offsetX * LenUnit) < 2500
  THEN (IF localX + offsetX * LenUnit >= 0 THEN 1 ELSE -1)
         * (2500 + (r1 * 10 * LenUnit) \div RandUnit) - offsetX * LenUnit
  ELSE localX

\* an instance that is rendered where it was drawn, path clearance left out
ScatteredRockUncleared(minScale, maxScale, chunkSize, offsetX, offsetZ, r) ==
  [worldX |-> offsetX * LenUnit + LocalCoord(r[0], chunkSize),
   worldZ |-> offsetZ * LenUnit + LocalCoord(r[1], chunkSize),
   scale  |-> ScaleOf(minScale, maxScale, r[2])]

\* one instance of a <ScatteredRocks>, from its draws r: the instance matrix holds
\* the local position, the mesh sits at (offsetX, 0, offsetZ)
ScatteredRock(minScale, maxScale, chunkSize, offsetX, offsetZ, r) ==
  [worldX |-> offsetX * LenUnit
                + ClearedLocalX(ScaleOf(minScale, maxScale, r[2]), r[0],
                                LocalCoord(r[0], chunkSize), offsetX),
   worldZ |-> offsetZ * LenUnit + LocalCoord(r[1], chunkSize),
   scale  |-> ScaleOf(minScale, maxScale, r[2])]

\* the instances of one <ScatteredRocks count minScale maxScale chunkSize offsetX offsetZ>
ScatteredRocks(count, minScale, maxScale, chunkSize, offsetX, offsetZ) ==
  [k \in 1..count |->
     ScatteredRock(minScale, maxScale, chunkSize, offsetX, offsetZ,
                   Draws(SeedBase(offsetX, offsetZ), k - 1))]

\* Scene.tsx lines 90-116: the props of the three obstacle tiers of a chunk
RenderedTiers ==
  << [count |-> 1,  minScale |-> 2200, maxScale |-> 3200],
     [count |-> 3,  minScale |-> 900,  maxScale |-> 1500],
     [count |-> 25, minScale |-> 150,  maxScale |-> 350] >>

\* the obstacle tiers InfiniteTerrain renders for the chunk at (chunkX, chunkZ)
InfiniteTerrainRocks(chunkX, chunkZ) ==
  [t \in 1..Len(RenderedTiers) |->
     ScatteredRocks(RenderedTiers[t].count, RenderedTiers[t].minScale,
                    RenderedTiers[t].maxScale, CHUNK_SIZE,
                    chunkX * CHUNK_SIZE, chunkZ * CHUNK_SIZE)]

-----------------------------------------------------------------------------
(* Rover state: Rover.tsx refs and the keyboard handlers *)

Keys == {"w", "a", "s", "d"}
Phases == {"IDLE", "INCOMING", "IMPACT"}
Wheels == 1..6

\* WHEEL_POSITIONS[i][1] - 0.3, in 1/1000000
NeutralY == (200 - 300) * 1000

Infinity == 2147483647

NoKeys == [k \in Keys |-> FALSE]

NoFrame ==
  [ran |-> FALSE, storm |-> FALSE, phase |-> "IDLE", keys |-> NoKeys,
   autoPilot |-> FALSE, retractionT |-> 0, mode |-> "STOPPED",
   modeSpeed |-> 0,
   targetSpeed |-> 0, targetSteer |-> 0, stopping |-> FALSE,
   performRaycastAvoidance |-> FALSE, searchRan |-> FALSE,
   costs |-> <<>>, penalties |-> <<>>, bestIdx |-> 0, bestSteerOffset |-> 0,
   bestCost |-> <<0, 0>>, allBlocked |-> FALSE,
   stuckTimerIn |-> 0, recoveryTimerIn |-> 0, stuckTimerMid |-> 0,
   recoveryStarted |-> FALSE, inRecovery |-> FALSE, recoveryAge |-> 0,
   speedIn |-> 0, steerIn |-> 0,
   proposed |-> [x |-> 0, z |-> 0], hitSomething |-> FALSE,
   clamped |-> [i \in Wheels |-> FALSE]]

\* App after its first render and its effects: the random sandstorm scheduler has
\* set its timeout at time 0 (due after 30 s, and before 40 s), no gesture was seen
InitApp ==
  [now |-> 0,
   timers |-> {[kind |-> "random", due |-> 30000]},
   cooldownRef |-> FALSE,
   deps |-> [stormActive |-> FALSE, meteorPhase |-> "IDLE"],
   last |-> "mount", presses |-> 0, waves |-> 0,
   stormSince |-> 0, pressAt |-> 0]

InitAgentState ==
  [yaw |-> 0, steerAngle |-> 0, speed |-> 200,
   currentCoverTarget |-> <<>>,
   stuckTimer |-> 0, recoveryTimer |-> 0,
   scanTimer |-> 0, isScanning |-> FALSE,
   knockbackVel |-> [x |-> 0, y |-> 0, z |-> 0],
   retractionT |-> 0,
   wheelVelocities |-> [i \in Wheels |-> 0],
   isUnderCover |-> FALSE]

\* the refs and props of the component with the agent state a, for a frame delta d
InitRover(d, a) ==
  /\ stormActive = FALSE
  /\ meteorPhase = "IDLE"
  /\ keysPressed = NoKeys
  /\ autoPilotRef = FALSE
  /\ userPanelOverride = "null"
  /\ frameCount = 0
  /\ delta = d
  /\ roverPos = [x |-> 0, y |-> 0, z |-> 1350]
  /\ agentState = a
  /\ wheelY = [i \in Wheels |-> NeutralY]
  /\ wheelTarget = [i \in Wheels |-> NeutralY]
  /\ lastChunkPos = [x |-> -999, z |-> -999]
  /\ obstaclesCache = <<>>
  /\ damageCount = 0
  /\ frame = NoFrame
  /\ genLog = {}
  /\ renderLast = <<>>
  /\ lastHit = <<>>
  /\ app = InitApp

\* the state after the component is constructed, for a frame delta d
InitWith(d) == InitRover(d, InitAgentState)

\* handleKeyDown for the keys w, a, s, d
KeyDown(k) ==
  /\ k \in Keys
  /\ ~keysPressed[k]
  /\ keysPressed' = [keysPressed EXCEPT ![k] = TRUE]
  /\ UNCHANGED <<stormActive, meteorPhase, autoPilotRef, userPanelOverride, frameCount,
                 delta, roverPos, agentState, wheelY, wheelTarget, lastChunkPos,
                 obstaclesCache, damageCount, frame, genLog, renderLast,
                 lastHit, app>>

\* handleKeyUp
KeyUp(k) ==
  /\ k \in Keys
  /\ keysPressed[k]
  /\ keysPressed' = [keysPressed EXCEPT ![k] = FALSE]
  /\ UNCHANGED <<stormActive, meteorPhase, autoPilotRef, userPanelOverride, frameCount,
                 delta, roverPos, agentState, wheelY, wheelTarget, lastChunkPos,
                 obstaclesCache, damageCount, frame, genLog, renderLast,
                 lastHit, app>>

\* handleKeyDown for q: toggle the autopilot, reset the panel override
KeyQ ==
  /\ autoPilotRef' = ~autoPilotRef
  /\ userPanelOverride' = "null"
  /\ UNCHANGED <<stormActive, meteorPhase, keysPressed, frameCount,
                 delta, roverPos, agentState, wheelY, wheelTarget, lastChunkPos,
                 obstaclesCache, damageCount, frame, genLog, renderLast,
                 lastHit, app>>

\* handleKeyDown for p: toggle the panels, only with the autopilot off
KeyP ==
  /\ ~autoPilotRef
  /\ userPanelOverride' = (IF userPanelOverride = "true" THEN "false" ELSE "true")
  /\ UNCHANGED <<stormActive, meteorPhase, keysPressed, autoPilotRef, frameCount,
                 delta, roverPos, agentState, wheelY, wheelTarget, lastChunkPos,
                 obstaclesCache, damageCount, frame, genLog, renderLast,
                 lastHit, app>>

\* the parent re-renders Rover with another stormActive
SetStorm(b) ==
  /\ stormActive # b
  /\ stormActive' = b
  /\ UNCHANGED <<meteorPhase, keysPressed, autoPilotRef, userPanelOverride, frameCount,
                 delta, roverPos, agentState, wheelY, wheelTarget, lastChunkPos,
                 obstaclesCache, damageCount, frame, genLog, renderLast,
                 lastHit, app>>

\* App.handlePress and its two timers: IDLE -> INCOMING -> IMPACT -> IDLE
NextPhase(p) ==
  IF p = "IDLE" THEN "INCOMING" ELSE IF p = "INCOMING" THEN "IMPACT" ELSE "IDLE"

\* the parent re-renders Rover with the next meteorPhase
SetPhase ==
  /\ meteorPhase' = NextPhase(meteorPhase)
  /\ UNCHANGED <<stormActive, keysPressed, autoPilotRef, userPanelOverride, frameCount,
                 delta, roverPos, agentState, wheelY, wheelTarget, lastChunkPos,
                 obstaclesCache, damageCount, frame, genLog, renderLast,
                 lastHit, app>>

\* the terrain under wheel i changes the wheel's target height
Terrain(i, y) ==
  /\ wheelTarget[i] # y
  /\ wheelTarget' = [wheelTarget EXCEPT ![i] = y]
  /\ UNCHANGED <<stormActive, meteorPhase, keysPressed, autoPilotRef, userPanelOverride,
                 frameCount, delta, roverPos, agentState, wheelY, lastChunkPos,
                 obstaclesCache, damageCount, frame, genLog, renderLast,
                 lastHit, app>>

\* a hit that no cover absorbs
HitUnsheltered(v) ==
  /\ meteorPhase = "IMPACT"
  /\ agentState' = [agentState EXCEPT !.knockbackVel = [x |-> v.x, y |-> 0, z |-> v.z]]
  /\ damageCount' = Min(damageCount + 1, 20)
  /\ lastHit' = <<[impactVelocity |-> v,
                   seq |-> IF lastHit = <<>> THEN 0 ELSE 1 - lastHit[1].seq]>>
  /\ UNCHANGED <<stormActive, meteorPhase, keysPressed, autoPilotRef, userPanelOverride,
                 frameCount, delta, roverPos, wheelY, wheelTarget, lastChunkPos,
                 obstaclesCache, frame, genLog, renderLast, app>>

\* Meteors.tsx lines 126-138: a falling meteor strikes the rover during IMPACT and
\* calls RoverHandle.hit(impactForce); Rover.tsx lines 443-461
Hit(v) ==
  LET isSafe == agentState.isUnderCover /\ agentState.retractionT > 800
  IN  /\ meteorPhase = "IMPACT"
      /\ IF isSafe
         THEN UNCHANGED <<agentState, damageCount>>
         ELSE /\ agentState' = [agentState EXCEPT !.knockbackVel = [x |-> v.x, y |-> 0, z |-> v.z]]
              /\ damageCount' = Min(damageCount + 1, 20)
      /\ UNCHANGED <<stormActive, meteorPhase, keysPressed, autoPilotRef, userPanelOverride,
                     frameCount, delta, roverPos, wheelY, wheelTarget, lastChunkPos,
                     obstaclesCache, frame, genLog, renderLast, app>>
      /\ lastHit' = <<[impactVelocity |-> v,
                       seq |-> IF lastHit = <<>> THEN 0 ELSE 1 - lastHit[1].seq]>>

-----------------------------------------------------------------------------
(* useFrame: retraction, chunk refresh, mode selection *)

\* lines 768-795: the panel retraction; returns the new override and retractionT
Retraction(storm, phase, autoPilot, override, retractionT, d) ==
  LET autoRetract   == storm \/ phase = "IMPACT"
      shouldRetract == IF autoPilot THEN autoRetract
                       ELSE IF override # "null" THEN override = "true" ELSE FALSE
      animSpeed     == (d * 6) \div 10
  IN  [override    |-> IF autoPilot THEN "null" ELSE override,
       retractionT |-> IF shouldRetract THEN Min(1000, retractionT + animSpeed)
                       ELSE Max(0, retractionT - animSpeed)]

\* Math.round(p / CHUNK_SIZE)
ChunkOf(p) == RoundDiv(p, CHUNK_SIZE * LenUnit)

\* lines 835-837: the offsets (xx, zz) in the order of the two loops
ChunkOffsets ==
  [n \in 1..9 |-> <<((n - 1) \div 3) - 1, ((n - 1) % 3) - 1>>]

\* lines 834-839: the cache of the 3x3 neighbourhood of chunk (cx, cz)
Neighbourhood(cx, cz) ==
  FoldRange(LAMBDA acc, n :
              acc \o getObstaclesInChunk(cx + ChunkOffsets[n][1], cz + ChunkOffsets[n][2]),
            1, Len(ChunkOffsets), <<>>)

\* Math.atan2(y, x) for x >= 0, y >= 0: the least a with sin(a) * x >= cos(a) * y
RECURSIVE AtanStep(_, _, _, _)
AtanStep(y, x, lo, hi) ==
  IF lo >= hi THEN lo
  ELSE LET mid == (lo + hi) \div 2
       IN  IF Sin(mid) * x >= Cos(mid) * y
           THEN AtanStep(y, x, lo, mid) ELSE AtanStep(y, x, mid + 1, hi)

\* Math.atan2(y, x) in 1/1000 rad
Atan2(y, x) ==
  LET a == AtanStep(Abs(y), Abs(x), 0, PiMilli \div 2)
      b == IF x >= 0 THEN a ELSE PiMilli - a
  IN  IF y >= 0 THEN b ELSE -b

\* lines 947-948: wrap an angle into [-pi, pi]
RECURSIVE WrapAngle(_)
WrapAngle(a) ==
  IF a > PiMilli THEN WrapAngle(a - 2 * PiMilli)
  ELSE IF a < -PiMilli THEN WrapAngle(a + 2 * PiMilli)
  ELSE a

DistSq(ax, az, bx, bz) == (ax - bx) * (ax - bx) + (az - bz) * (az - bz)

\* lines 899-909: the loop body for one obstacle; acc is [bestDist, target]
GiantStep(obs, pos, acc) ==
  LET dSq == DistSq(obs.x, obs.z, pos.x, pos.z)
  IN  IF ~(obs.scale < GIANT_SCALE) /\ dSq < acc.bestDist
      THEN [bestDist |-> dSq,
            target |-> <<[x |-> obs.x, z |-> obs.z, id |-> obs.id,
                          stopDist |-> (obs.scale * 15) \div 10 + 150]>>]
      ELSE acc

\* lines 898-909: the nearest obstacle of scale >= 8, scanning the cache in order
NearestGiant(cache, pos) ==
  FoldRange(LAMBDA acc, k : GiantStep(cache[k], pos, acc), 1, Len(cache),
            [bestDist |-> Infinity, target |-> <<>>])

\* lines 915-917: the grid of terrain points scanned for a depression, in scan order
ScanOffsets ==
  [n \in 1..121 |-> <<(((n - 1) \div 11) - 5) * 10, (((n - 1) % 11) - 5) * 10>>]

\* lines 917-928: the loop body for one grid point
DepressionStep(n, pos, acc) ==
  LET snapX == FloorDiv(pos.x, 10 * LenUnit) * 10
      snapZ == FloorDiv(pos.z, 10 * LenUnit) * 10
      wx  == (snapX + ScanOffsets[n][1]) * LenUnit
      wz  == (snapZ + ScanOffsets[n][2]) * LenUnit
      dSq == DistSq(wx, wz, pos.x, pos.z)
  IN  IF getBaseTerrainHeight(wx, wz) < -300 /\ dSq < acc.bestDist
      THEN [bestDist |-> dSq,
            target |-> <<[x |-> wx, z |-> wz, id |-> <<>>, stopDist |-> 500]>>]
      ELSE acc

\* lines 910-931: the nearest depression nearer than the obstacle found
NearestDepression(pos, found) ==
  FoldRange(LAMBDA acc, n : DepressionStep(n, pos, acc), 1, Len(ScanOffsets), found)

\* a selection that scans the terrain whatever the obstacle's distance is
CoverOrDepressionAlways(g, pos) == NearestDepression(pos, g).target

\* lines 910-932: the obstacle found, or the nearest depression when it is farther
\* than 30 units
CoverOrDepression(g, pos) ==
  IF g.bestDist > 900 * LenUnit * LenUnit
  THEN NearestDepression(pos, g).target
  ELSE g.target

\* lines 896-933: the cover target of this frame
SelectCoverTarget(current, cache, pos) ==
  IF current # <<>> THEN current
  ELSE CoverOrDepression(NearestGiant(cache, pos), pos)

\* systems offline that leave the default target speed in place
ManualOfflineCoasting ==
  [mode |-> "MANUAL", targetSpeed |-> 200, targetSteer |-> 0, stopping |-> FALSE,
   performRaycastAvoidance |-> FALSE, desiredHeading |-> 0, headingWeight |-> 3,
   arrived |-> FALSE]

\* lines 856-967 with a manual key held and the systems offline
ManualOffline ==
  [mode |-> "MANUAL", targetSpeed |-> 0, targetSteer |-> 0, stopping |-> FALSE,
   performRaycastAvoidance |-> FALSE, desiredHeading |-> 0, headingWeight |-> 3,
   arrived |-> FALSE]

\* manual driving at the wander speed scale
ManualDriveSlow(input) ==
  LET throttle == (IF input["w"] THEN 1 ELSE 0) - (IF input["s"] THEN 1 ELSE 0)
      steer    == (IF input["a"] THEN 1 ELSE 0) - (IF input["d"] THEN 1 ELSE 0)
  IN  [mode |-> "MANUAL", targetSpeed |-> throttle * 200, targetSteer |-> steer * 800,
       stopping |-> FALSE, performRaycastAvoidance |-> FALSE, desiredHeading |-> 0,
       headingWeight |-> 3, arrived |-> FALSE]

\* lines 868-878: manual driving
ManualDrive(input) ==
  LET throttle == (IF input["w"] THEN 1 ELSE 0) - (IF input["s"] THEN 1 ELSE 0)
      steer    == (IF input["a"] THEN 1 ELSE 0) - (IF input["d"] THEN 1 ELSE 0)
  IN  [mode |-> "MANUAL", targetSpeed |-> throttle * 500, targetSteer |-> steer * 800,
       stopping |-> FALSE, performRaycastAvoidance |-> FALSE, desiredHeading |-> 0,
       headingWeight |-> 3, arrived |-> FALSE]

Stopped ==
  [mode |-> "STOPPED", targetSpeed |-> 0, targetSteer |-> 0, stopping |-> TRUE,
   performRaycastAvoidance |-> FALSE, desiredHeading |-> 0, headingWeight |-> 3,
   arrived |-> FALSE]

\* a drive to the cover target that does not stop there
SeekTowardsNoStop(target, pos, yaw) ==
  LET dx == target[1].x - pos.x
      dz == target[1].z - pos.z
      go == [mode |-> "SEEK_COVER", targetSpeed |-> 1000, targetSteer |-> 0,
             stopping |-> FALSE, performRaycastAvoidance |-> TRUE,
             desiredHeading |-> 0, headingWeight |-> 40, arrived |-> FALSE,
             cover |-> target]
  IN  IF target = <<>> THEN go
      ELSE [go EXCEPT !.desiredHeading = WrapAngle(Atan2(-dx, -dz) - yaw)]

\* lines 935-954: drive to the cover target, stop within its stopDist
SeekTowards(target, pos, yaw) ==
  LET dx == target[1].x - pos.x
      dz == target[1].z - pos.z
      go == [mode |-> "SEEK_COVER", targetSpeed |-> 1000, targetSteer |-> 0,
             stopping |-> FALSE, performRaycastAvoidance |-> TRUE,
             desiredHeading |-> 0, headingWeight |-> 40, arrived |-> FALSE,
             cover |-> target]
  IN  IF target = <<>> THEN go
      ELSE IF Sqrt(dx * dx + dz * dz) < target[1].stopDist
      THEN [go EXCEPT !.targetSpeed = 0, !.stopping = TRUE, !.arrived = TRUE]
      ELSE [go EXCEPT !.desiredHeading = WrapAngle(Atan2(-dx, -dz) - yaw)]

\* lines 891-954: select the cover target, then seek it
SeekCover(current, cache, pos, yaw) ==
  SeekTowards(SelectCoverTarget(current, cache, pos), pos, yaw)

Wander ==
  [mode |-> "WANDER", targetSpeed |-> 200, targetSteer |-> 0, stopping |-> FALSE,
   performRaycastAvoidance |-> TRUE, desiredHeading |-> 0, headingWeight |-> 3,
   arrived |-> FALSE]

\* a selection that lets a storm stop the rover before the keys are looked at
ModeSelectStormFirst(input, offline, storm, phase, autoPilot, target, cache, pos, yaw) ==
  IF storm THEN Stopped
  ELSE IF input["w"] \/ input["a"] \/ input["s"] \/ input["d"]
  THEN (IF offline THEN ManualOffline ELSE ManualDrive(input))
  ELSE IF phase = "IMPACT" THEN Stopped
  ELSE IF offline THEN Stopped
  ELSE IF phase = "INCOMING" THEN SeekCover(target, cache, pos, yaw)
  ELSE IF autoPilot THEN Wander
  ELSE Stopped

\* a selection that lets an incoming threat override IMPACT and storms
ModeSelectThreatFirst(input, offline, storm, phase, autoPilot, target, cache, pos, yaw) ==
  IF input["w"] \/ input["a"] \/ input["s"] \/ input["d"]
  THEN (IF offline THEN ManualOffline ELSE ManualDrive(input))
  ELSE IF phase = "INCOMING" THEN SeekCover(target, cache, pos, yaw)
  ELSE IF phase = "IMPACT" THEN Stopped
  ELSE IF storm \/ offline THEN Stopped
  ELSE IF autoPilot THEN Wander
  ELSE Stopped

\* lines 856-967: the branch of this frame and the locals it sets
ModeSelect(input, offline, storm, phase, autoPilot, target, cache, pos, yaw) ==
  IF input["w"] \/ input["a"] \/ input["s"] \/ input["d"]
  THEN (IF offline THEN ManualOffline ELSE ManualDrive(input))
  ELSE IF phase = "IMPACT" THEN Stopped
  ELSE IF storm \/ offline THEN Stopped
  ELSE IF phase = "INCOMING" THEN SeekCover(target, cache, pos, yaw)
  ELSE IF autoPilot THEN Wander
  ELSE Stopped

-----------------------------------------------------------------------------
(* useFrame: the throttled steering search, lines 969-1076 *)

RAY_COUNT == 35
SAMPLES == 10
FOV == (PiMilli * 13) \div 10

\* THREE.MathUtils.lerp(-FOV/2, FOV/2, i / (RAY_COUNT - 1)) for ray i = 0 .. 34
AngleOffset(i) == Quot(i * FOV, RAY_COUNT - 1) - FOV \div 2

\* line 975: baseLookAhead + |speed| * 3.0
LookAhead(speed) == 1200 + Abs(speed) * 3

\* a penalty loop that skips every obstacle below the cover scale
PenalisedGiants(cache, currentTarget, pos, lookAhead) ==
  SelectSeq(cache, LAMBDA obs :
    /\ ~(currentTarget # <<>> /\ obs.id = currentTarget[1].id)
    /\ ~(obs.scale < GIANT_SCALE)
    /\ DistSq(pos.x, pos.z, obs.x, obs.z)
         < (lookAhead + (obs.radius * 12) \div 10 + 2) * (lookAhead + (obs.radius * 12) \div 10 + 2))

\* lines 1005-1015: the obstacles the penalty loop does not skip, less those farther
\* from pos than lookAhead + safeR, whose test at line 1015 fails at every sample
Penalised(cache, currentTarget, pos, lookAhead) ==
  SelectSeq(cache, LAMBDA obs :
    /\ ~(currentTarget # <<>> /\ obs.id = currentTarget[1].id)
    /\ ~(obs.scale < RUNNABLE_ROCK_SCALE)
    /\ DistSq(pos.x, pos.z, obs.x, obs.z)
         < (lookAhead + (obs.radius * 12) \div 10 + 2) * (lookAhead + (obs.radius * 12) \div 10 + 2))

\* lines 1010-1021: the penalty one obstacle adds at the sample point (px, pz)
ObstaclePenalty(obs, px, pz, angleOffset) ==
  LET distSq == DistSq(px, pz, obs.x, obs.z)
      safeR  == (obs.radius * 12) \div 10
  IN  IF distSq < safeR * safeR
      THEN LET proximity   == safeR - Sqrt(distSq)
               angleWeight == 1000 + Max(0, (Cos(angleOffset) * 3) \div 2)
           IN  MulDiv((proximity * proximity * 8) \div 10, angleWeight, 1000)
      ELSE 0

RECURSIVE SumPenalty(_, _, _, _, _)
SumPenalty(obstacles, hits, px, pz, angleOffset) ==
  IF hits = {} THEN 0
  ELSE LET k == CHOOSE n \in hits : \A m \in hits : n <= m
       IN  ObstaclePenalty(obstacles[k], px, pz, angleOffset)
             + SumPenalty(obstacles, hits \ {k}, px, pz, angleOffset)

\* lines 1005-1030: the penalty added at the sample point (px, pz) of height h
SampleCost(obstacles, px, pz, angleOffset, h, prevH, lookAhead) ==
  SumPenalty(obstacles,
             {k \in 1..Len(obstacles) :
                DistSq(px, pz, obstacles[k].x, obstacles[k].z)
                  < ((obstacles[k].radius * 12) \div 10) * ((obstacles[k].radius * 12) \div 10)},
             px, pz, angleOffset)
    + (IF Abs(Quot((h - prevH) * 1000, lookAhead \div SAMPLES)) > 650
       THEN Abs(Quot((h - prevH) * 1000, lookAhead \div SAMPLES)) ELSE 0)

RECURSIVE SamplePenalty(_, _, _, _, _, _, _, _)

\* lines 1001-1031: sample s at (px, pz) of height h, then the samples after it
SampleAt(obstacles, pos, dirX, dirZ, angleOffset, lookAhead, s, prevH, px, pz, h) ==
  SampleCost(obstacles, px, pz, angleOffset, h, prevH, lookAhead)
    + SamplePenalty(obstacles, pos, dirX, dirZ, angleOffset, lookAhead, s + 1, h)

\* lines 1000-1031: the penalty of the samples s .. SAMPLES of one ray
SamplePenalty(obstacles, pos, dirX, dirZ, angleOffset, lookAhead, s, prevH) ==
  IF s > SAMPLES THEN 0
  ELSE SampleAt(obstacles, pos, dirX, dirZ, angleOffset, lookAhead, s, prevH,
                pos.x + Quot(dirX * ((s * lookAhead) \div SAMPLES), 1000),
                pos.z + Quot(dirZ * ((s * lookAhead) \div SAMPLES), 1000),
                getBaseTerrainHeight(
                  pos.x + Quot(dirX * ((s * lookAhead) \div SAMPLES), 1000),
                  pos.z + Quot(dirZ * ((s * lookAhead) \div SAMPLES), 1000)))

\* the penalty of ray i
RayPenalty(obstacles, pos, yaw, speed, i) ==
  LET angleOffset == AngleOffset(i)
      rayYaw      == yaw + angleOffset
      lookAhead   == LookAhead(speed)
  IN  SamplePenalty(obstacles, pos, -Sin(rayYaw), -Cos(rayYaw), angleOffset, lookAhead,
                    1, pos.y)

\* lines 989-991: the heading terms of the cost of ray i, in 1/1000
HeadingCost(i, desiredHeading, headingWeight, steerAngle) ==
  Abs(AngleOffset(i) - desiredHeading) * headingWeight
    + Abs(AngleOffset(i) - steerAngle) \div 2
    + Abs(AngleOffset(i)) \div 5

\* a cost is <<whole part, thousandths>>
Cost(penalty, heading) == <<penalty + heading \div 1000, heading % 1000>>
CostLess(a, b) == a[1] < b[1] \/ (a[1] = b[1] /\ a[2] < b[2])
CostAbove(a, n) == a[1] > n \/ (a[1] = n /\ a[2] > 0)

\* a choice that lets a later candidate of equal cost replace the best
RECURSIVE BestRayLastWins(_, _, _)
BestRayLastWins(costs, i, bestIdx) ==
  IF i > RAY_COUNT THEN bestIdx
  ELSE IF bestIdx = 0 \/ ~CostLess(costs[bestIdx], costs[i])
       THEN BestRayLastWins(costs, i + 1, i)
       ELSE BestRayLastWins(costs, i + 1, bestIdx)

\* lines 1039-1042: the first candidate of least cost among rays i .. RAY_COUNT,
\* given the best of the rays before (0: none yet, bestCost = Infinity)
RECURSIVE BestRay(_, _, _)
BestRay(costs, i, bestIdx) ==
  IF i > RAY_COUNT THEN bestIdx
  ELSE IF bestIdx = 0 \/ CostLess(costs[i], costs[bestIdx])
       THEN BestRay(costs, i + 1, i)
       ELSE BestRay(costs, i + 1, bestIdx)

\* line 1066: THREE.MathUtils.clamp(bestSteerOffset, -0.8, 0.8)
SteerOf(bestSteerOffset) == Clamp(bestSteerOffset, -800, 800)

\* lines 988-1042: costs, the choice of the best candidate and allBlocked, from the
\* penalties of the 35 rays
Choose(penalties, steerAngle, desiredHeading, headingWeight) ==
  LET costs == [i \in 1..RAY_COUNT |->
                  Cost(penalties[i],
                       HeadingCost(i - 1, desiredHeading, headingWeight, steerAngle))]
  IN  [ran |-> TRUE, penalties |-> penalties, costs |-> costs,
       bestIdx |-> BestRay(costs, 1, 0),
       bestCost |-> costs[BestRay(costs, 1, 0)],
       bestSteerOffset |-> AngleOffset(BestRay(costs, 1, 0) - 1),
       allBlocked |-> \A i \in 1..RAY_COUNT : ~(penalties[i] < 100)]

\* lines 984-1031: the penalties of the 35 rays
Rays(obstacles, pos, yaw, speed) ==
  [i \in 1..RAY_COUNT |-> RayPenalty(obstacles, pos, yaw, speed, i - 1)]

\* lines 978-1043: the candidate loop
CandidateLoop(cache, currentTarget, pos, yaw, speed, steerAngle, desiredHeading, headingWeight) ==
  Choose(Rays(Penalised(cache, currentTarget, pos, LookAhead(speed)), pos, yaw, speed),
         steerAngle, desiredHeading, headingWeight)

\* the locals of a frame whose search is skipped (line 970)
NoLoop ==
  [ran |-> FALSE, penalties |-> <<>>, costs |-> <<>>, bestIdx |-> 0,
   bestCost |-> <<0, 0>>, bestSteerOffset |-> 0, allBlocked |-> FALSE]

\* a stuck test that needs the timer to reach 2.0
RecoveryDueLate(stuckTimer, recoveryTimer) == stuckTimer > 2000 /\ recoveryTimer <= 0

\* line 1055: a recovery episode starts
RecoveryDue(stuckTimer, recoveryTimer) == stuckTimer > 1000 /\ recoveryTimer <= 0

\* lines 1045-1053: the stuck timer after the candidate loop
StuckTimer(loop, m, speed, stuckTimer, recoveryTimer, d) ==
  IF Abs(m.targetSpeed) > 10
       /\ (loop.allBlocked \/ (~(Abs(speed) > 10) /\ recoveryTimer <= 0))
  THEN stuckTimer + d * 3
  ELSE Max(0, stuckTimer - d * 3)

\* line 1057: Math.random() > 0.5 is drawn only when a recovery starts
RandomDraws(stuck1, recoveryTimer) ==
  IF RecoveryDue(stuck1, recoveryTimer) THEN BOOLEAN ELSE {FALSE}

\* lines 1045-1075: stuck timer, recovery and the speed throttle, from the result
\* of the candidate loop; rnd is Math.random() > 0.5
StuckAndRecovery(loop, m, speed, steerAngle, stuckTimer, recoveryTimer, d, rnd) ==
  LET stuck1   == StuckTimer(loop, m, speed, stuckTimer, recoveryTimer, d)
      starts   == RecoveryDue(stuck1, recoveryTimer)
      rec1     == IF starts THEN 2000 ELSE recoveryTimer
      steer1   == IF starts THEN (IF rnd THEN -1000 ELSE 1000) ELSE steerAngle
      inRec    == rec1 > 0
      rec2     == IF inRec THEN rec1 - d * 3 ELSE rec1
      tSpeed1  == IF inRec THEN -200 ELSE m.targetSpeed
      tSteer   == IF inRec THEN steer1 ELSE SteerOf(loop.bestSteerOffset)
      stuck2   == IF inRec THEN 0 ELSE stuck1
      turnBrake == Max(300, 1000 - Abs(tSteer))
      braked   == Quot(tSpeed1 * turnBrake, 1000)
      tSpeed2  == IF ~m.stopping /\ rec2 <= 0
                  THEN (IF CostAbove(loop.bestCost, 2000) THEN Quot(braked * 3, 10)
                        ELSE IF CostAbove(loop.bestCost, 500) THEN Quot(braked * 6, 10)
                        ELSE braked)
                  ELSE tSpeed1
  IN  [loop |-> loop, stuckTimerMid |-> stuck1, stuckTimer |-> stuck2,
       recoveryTimer |-> rec2, recoveryStarted |-> starts, inRecovery |-> inRec,
       steerAngle |-> steer1, targetSpeed |-> tSpeed2, targetSteer |-> tSteer]

\* line 970 false: targets from the mode selection, timers and steer untouched
SearchSkipped(m, steerAngle, stuckTimer, recoveryTimer) ==
  [loop |-> NoLoop, stuckTimerMid |-> stuckTimer, stuckTimer |-> stuckTimer,
   recoveryTimer |-> recoveryTimer, recoveryStarted |-> FALSE, inRecovery |-> FALSE,
   steerAngle |-> steerAngle, targetSpeed |-> m.targetSpeed,
   targetSteer |-> m.targetSteer]

-----------------------------------------------------------------------------
(* useFrame: integration, collision resolution, suspension *)

roverRadius == 80

\* line 1178: the least distance kept from the centre of an obstacle
MinDist(obs) == (obs.scale * 85) \div 100 + roverRadius

\* lines 1165-1191: the loop body for one obstacle; acc is
\* [x, z, hitSomething, underCover]
CollisionStep(obs, acc) ==
  LET dx     == acc.x - obs.x
      dz     == acc.z - obs.z
      distSq == dx * dx + dz * dz
      cover  == obs.scale > GIANT_SCALE
                  /\ distSq < ((obs.scale * 11) \div 10) * ((obs.scale * 11) \div 10)
      acc1   == [acc EXCEPT !.underCover = acc.underCover \/ cover]
      minDist == MinDist(obs)
      dist   == Sqrt(distSq)
  IN  IF obs.scale < RUNNABLE_ROCK_SCALE THEN acc1
      ELSE IF distSq < minDist * minDist /\ distSq > 0
      THEN [acc1 EXCEPT !.x = obs.x + Quot(dx * minDist, dist),
                        !.z = obs.z + Quot(dz * minDist, dist),
                        !.hitSomething = TRUE]
      ELSE acc1

\* lines 1159-1201: collision resolution of the proposed position
ResolveCollisions(cache, nextX, nextZ) ==
  FoldRange(LAMBDA acc, k : CollisionStep(cache[k], acc), 1, Len(cache),
            [x |-> nextX, z |-> nextZ, hitSomething |-> FALSE, underCover |-> FALSE])

\* a rock top that is as high everywhere as above the rock's centre
RockTopFlat(obs, wx, wz) ==
  getBaseTerrainHeight(obs.x, obs.z) - (obs.scale * 4) \div 10 + (obs.scale * 9) \div 10

\* lines 481-495: the top of the runnable rock obs above the point (wx, wz)
RockTop(obs, wx, wz) ==
  getBaseTerrainHeight(obs.x, obs.z) - (obs.scale * 4) \div 10
    + Sqrt(Max(0, ((obs.scale * 9) \div 10) * ((obs.scale * 9) \div 10)
                    - DistSq(wx, wz, obs.x, obs.z)))

\* lines 477-497: the loop body for one obstacle; maxH is the height so far
SurfaceStep(obs, wx, wz, maxH) ==
  IF obs.scale >= RUNNABLE_ROCK_SCALE THEN maxH
  ELSE IF DistSq(wx, wz, obs.x, obs.z)
            < ((obs.scale * 9) \div 10) * ((obs.scale * 9) \div 10)
  THEN Max(maxH, RockTop(obs, wx, wz))
  ELSE maxH

\* lines 475-498: the drivable surface height
getSurfaceHeight(cache, wx, wz) ==
  FoldRange(LAMBDA maxH, k : SurfaceStep(cache[k], wx, wz, maxH), 1, Len(cache),
            getBaseTerrainHeight(wx, wz))

\* lines 1260-1262, with lengths in 1/1000000
maxTravel == 400000
stiffness == 120
damping == 20

\* lines 1269-1274: the offset and velocity integrated over dt ms, before the limits
Integrated(currentY, velocity, targetLocalY, dt) ==
  LET clampedTargetY == Clamp(targetLocalY, NeutralY - maxTravel, NeutralY + maxTravel)
      acceleration   == -stiffness * (currentY - clampedTargetY) - damping * velocity
      newVelocity    == velocity + MulDiv(acceleration, dt, 1000)
  IN  [y |-> currentY + MulDiv(newVelocity, dt, 1000), velocity |-> newVelocity]

\* no travel limits
Unlimited(n) == [y |-> n.y, velocity |-> n.velocity, clamped |-> FALSE]

\* lines 1276-1282: the travel limits
Limited(n) ==
  IF n.y < NeutralY - maxTravel
  THEN [y |-> NeutralY - maxTravel, velocity |-> 0, clamped |-> TRUE]
  ELSE IF n.y > NeutralY + maxTravel
  THEN [y |-> NeutralY + maxTravel, velocity |-> 0, clamped |-> TRUE]
  ELSE [y |-> n.y, velocity |-> n.velocity, clamped |-> FALSE]

\* lines 1257-1285: the spring-damper of one wheel
SuspensionStep(currentY, velocity, targetLocalY, dt) ==
  Limited(Integrated(currentY, velocity, targetLocalY, dt))

\* a scan timer that is never reset
ScanStepHeld(storm, phase, scanTimer, isScanning, d) ==
  IF ~storm /\ phase = "IDLE"
  THEN [scanTimer |-> scanTimer + d, isScanning |-> scanTimer + d > 5000]
  ELSE [scanTimer |-> scanTimer, isScanning |-> FALSE]

\* lines 1090-1101: the scan timer
ScanStep(storm, phase, scanTimer, isScanning, d) ==
  IF ~storm /\ phase = "IDLE"
  THEN LET t == scanTimer + d
       IN  IF t > 7000 THEN [scanTimer |-> 0, isScanning |-> FALSE]
           ELSE IF t > 5000 THEN [scanTimer |-> t, isScanning |-> TRUE]
           ELSE [scanTimer |-> t, isScanning |-> isScanning]
  ELSE [scanTimer |-> scanTimer, isScanning |-> FALSE]

\* a frame that never clears the cover target
CoverTargetKept == agentState.currentCoverTarget

\* lines 852-854: the cover target the frame starts with
CoverTargetIn == IF meteorPhase = "IDLE" THEN <<>> ELSE agentState.currentCoverTarget

\* the assignments of one frame, from its locals: ret the retraction, cache the
\* obstacle cache, m the mode selection, s the search (or its skip), col the
\* collision resolution, h the surface height, wheels the six spring steps
FrameCommit(ret, cache, m, s, steer1, speed1, yaw1, nextX, nextZ, col, h, wheels) ==
  /\ frameCount' = frameCount + 1
  /\ userPanelOverride' = ret.override
  /\ lastChunkPos' = [x |-> ChunkOf(roverPos.x), z |-> ChunkOf(roverPos.z)]
  /\ obstaclesCache' = cache
  /\ roverPos' = [x |-> col.x, y |-> Lerp(roverPos.y, h + 55, 200), z |-> col.z]
  /\ wheelY' = [i \in Wheels |-> wheels[i].y]
  /\ agentState' =
       [yaw |-> yaw1, steerAngle |-> steer1,
        speed |-> IF col.hitSomething THEN Quot(speed1 * 95, 100) ELSE speed1,
        currentCoverTarget |-> IF m.mode = "SEEK_COVER" THEN m.cover ELSE CoverTargetIn,
        stuckTimer |-> s.stuckTimer, recoveryTimer |-> s.recoveryTimer,
        scanTimer |-> ScanStep(stormActive, meteorPhase, agentState.scanTimer,
                               agentState.isScanning, delta).scanTimer,
        isScanning |-> ScanStep(stormActive, meteorPhase, agentState.scanTimer,
                                agentState.isScanning, delta).isScanning,
        knockbackVel |-> [x |-> Quot(agentState.knockbackVel.x * 85, 100),
                          y |-> Quot(agentState.knockbackVel.y * 85, 100),
                          z |-> Quot(agentState.knockbackVel.z * 85, 100)],
        retractionT |-> ret.retractionT,
        wheelVelocities |-> [i \in Wheels |-> wheels[i].velocity],
        isUnderCover |-> col.underCover]
  /\ frame' =
       [ran |-> TRUE, storm |-> stormActive, phase |-> meteorPhase,
        keys |-> keysPressed, autoPilot |-> autoPilotRef,
        retractionT |-> ret.retractionT, mode |-> m.mode,
        modeSpeed |-> m.targetSpeed,
        targetSpeed |-> s.targetSpeed, targetSteer |-> s.targetSteer,
        stopping |-> m.stopping,
        performRaycastAvoidance |-> m.performRaycastAvoidance,
        searchRan |-> s.loop.ran,
        costs |-> s.loop.costs, penalties |-> s.loop.penalties,
        bestIdx |-> s.loop.bestIdx, bestSteerOffset |-> s.loop.bestSteerOffset,
        bestCost |-> s.loop.bestCost, allBlocked |-> s.loop.allBlocked,
        stuckTimerIn |-> agentState.stuckTimer,
        recoveryTimerIn |-> agentState.recoveryTimer,
        stuckTimerMid |-> s.stuckTimerMid,
        recoveryStarted |-> s.recoveryStarted, inRecovery |-> s.inRecovery,
        recoveryAge |-> IF s.recoveryTimer > 0
                        THEN (IF s.recoveryStarted THEN 0 ELSE frame.recoveryAge) + delta
                        ELSE 0,
        speedIn |-> agentState.speed, steerIn |-> agentState.steerAngle,
        proposed |-> [x |-> nextX, z |-> nextZ],
        hitSomething |-> col.hitSomething,
        clamped |-> [i \in Wheels |-> wheels[i].clamped]]
  /\ UNCHANGED <<stormActive, meteorPhase, keysPressed, autoPilotRef, delta,
                 wheelTarget, damageCount, genLog, renderLast, lastHit, app>>

\* lines 1159-1285: collision resolution, surface height and the wheels
FrameSettle(ret, cache, m, s, steer1, speed1, yaw1, nextX, nextZ, col) ==
  FrameCommit(ret, cache, m, s, steer1, speed1, yaw1, nextX, nextZ, col,
              getSurfaceHeight(cache, col.x, col.z),
              [i \in Wheels |->
                 SuspensionStep(wheelY[i], agentState.wheelVelocities[i], wheelTarget[i],
                                Min(delta, 50))])

\* lines 1150-1157: the proposed position
FrameMove(ret, cache, m, s, steer1, speed1, yaw1, nextX, nextZ) ==
  FrameSettle(ret, cache, m, s, steer1, speed1, yaw1, nextX, nextZ,
              ResolveCollisions(cache, nextX, nextZ))

\* lines 1078-1088: steering, speed and yaw integration
FrameIntegrate(ret, cache, m, s, steer1, speed1) ==
  LET yaw1 == IF Abs(steer1) > 10
              THEN agentState.yaw + Quot(Quot(steer1 * speed1, 1000) * delta * 6, 1000)
              ELSE agentState.yaw
  IN  FrameMove(ret, cache, m, s, steer1, speed1, yaw1,
                roverPos.x - Quot(Quot(Sin(yaw1) * speed1, 1000) * delta, 1000)
                  + Quot(Quot(agentState.knockbackVel.x * 85, 100) * delta, 1000),
                roverPos.z - Quot(Quot(Cos(yaw1) * speed1, 1000) * delta, 1000)
                  + Quot(Quot(agentState.knockbackVel.z * 85, 100) * delta, 1000))

\* lines 1078-1084: the lerps of the steer angle and the speed
FrameSteer(ret, cache, m, speed0, s) ==
  FrameIntegrate(ret, cache, m, s,
                 Lerp(s.steerAngle, s.targetSteer, delta * 10),
                 IF m.stopping THEN Lerp(speed0, 0, delta * 2)
                 ELSE Lerp(speed0, s.targetSpeed,
                           delta * (IF keysPressed["w"] \/ keysPressed["s"] THEN 3 ELSE 2)))

\* lines 1045-1076: stuck timer and recovery after the candidate loop
FrameRecover(ret, cache, m, speed0, loop) ==
  \E rnd \in RandomDraws(StuckTimer(loop, m, speed0, agentState.stuckTimer,
                                     agentState.recoveryTimer, delta),
                          agentState.recoveryTimer) :
    FrameSteer(ret, cache, m, speed0,
               StuckAndRecovery(loop, m, speed0, agentState.steerAngle,
                                agentState.stuckTimer, agentState.recoveryTimer, delta,
                                rnd))

\* lines 969-1043: the throttled search of the frame
FrameSearch(ret, cache, m, speed0) ==
  IF m.performRaycastAvoidance /\ (frameCount + 1) % 3 = 0
  THEN FrameRecover(ret, cache, m, speed0,
                    CandidateLoop(cache,
                                  IF m.mode = "SEEK_COVER" THEN m.cover ELSE CoverTargetIn,
                                  roverPos, agentState.yaw, speed0, agentState.steerAngle,
                                  m.desiredHeading, m.headingWeight))
  ELSE FrameSteer(ret, cache, m, speed0,
                  SearchSkipped(m, agentState.steerAngle, agentState.stuckTimer,
                                agentState.recoveryTimer))

\* line 943: arriving at the cover target zeroes the speed
FrameSelect(ret, cache, m) ==
  FrameSearch(ret, cache, m, IF m.arrived THEN 0 ELSE agentState.speed)

\* lines 856-967: the mode selection of the frame
FrameModes(ret, cache) ==
  FrameSelect(ret, cache,
              ModeSelect(keysPressed, ret.retractionT > 50, stormActive, meteorPhase,
                         autoPilotRef, CoverTargetIn, cache, roverPos, agentState.yaw))

\* a frame that fills the cache once and never refreshes it
FrameKeepCache ==
  FrameModes(Retraction(stormActive, meteorPhase, autoPilotRef, userPanelOverride,
                        agentState.retractionT, delta),
             IF obstaclesCache = <<>>
             THEN Neighbourhood(ChunkOf(roverPos.x), ChunkOf(roverPos.z))
             ELSE obstaclesCache)

\* the whole useFrame callback for one frame of delta ms
Frame ==
  FrameModes(Retraction(stormActive, meteorPhase, autoPilotRef, userPanelOverride,
                        agentState.retractionT, delta),
             IF ChunkOf(roverPos.x) # lastChunkPos.x \/ ChunkOf(roverPos.z) # lastChunkPos.z
             THEN Neighbourhood(ChunkOf(roverPos.x), ChunkOf(roverPos.z))
             ELSE obstaclesCache)

\* one frame
Tick == Frame

-----------------------------------------------------------------------------
(* Consumers of the generator outside useFrame *)

Chunks == (-MaxChunk..MaxChunk) \X (-MaxChunk..MaxChunk)

\* a call getObstaclesInChunk(cx, cz) made after frameCount frames; its result is
\* logged
Query(cx, cz) ==
  LET result == getObstaclesInChunk(cx, cz)
      entry  == [chunk |-> <<cx, cz>>, at |-> frameCount, result |-> result]
  IN  /\ Cardinality(genLog) < MaxCalls
      /\ entry \notin genLog
      /\ genLog' = genLog \cup {entry}
      /\ UNCHANGED <<stormActive, meteorPhase, keysPressed, autoPilotRef,
                     userPanelOverride, frameCount, delta, roverPos, agentState, wheelY,
                     wheelTarget, lastChunkPos, obstaclesCache, damageCount, frame,
                     renderLast, lastHit, app>>

\* InfiniteTerrain lays out the rocks of the chunk (chunkX, chunkZ)
Render(chunkX, chunkZ) ==
  LET entry == [chunk |-> <<chunkX, chunkZ>>, tiers |-> InfiniteTerrainRocks(chunkX, chunkZ)]
  IN  /\ renderLast # <<entry>>
      /\ renderLast' = <<entry>>
      /\ UNCHANGED <<stormActive, meteorPhase, keysPressed, autoPilotRef,
                     userPanelOverride, frameCount, delta, roverPos, agentState, wheelY,
                     wheelTarget, lastChunkPos, obstaclesCache, damageCount, frame,
                     genLog, lastHit, app>>

-----------------------------------------------------------------------------
(* Specifications *)

\* the frame deltas explored, in ms: 10 frames per second, and 125 for the wheels
Deltas == {100}
WheelDeltas == {8}

\* a meteor strikes from the east-south-east or from the north at 25 units/s
HitVelocities == {[x |-> -2400, y |-> 0, z |-> 700], [x |-> 0, y |-> 0, z |-> 2500]}

\* terrain far below and far above a wheel's travel
TerrainHeights == {NeutralY - 2 * maxTravel, NeutralY + 2 * maxTravel}

Init == \E d \in Deltas : InitWith(d)

\* timers and animation frames are scheduled independently: a phase, a storm or a
\* key may change between any two frames
Next ==
  \/ frameCount < MaxTicks /\ Tick
  \/ frameCount < MaxInputFrames /\ \E k \in Keys : KeyDown(k)
  \/ frameCount < MaxInputFrames /\ \E k \in Keys : KeyUp(k)
  \/ frameCount < MaxInputFrames /\ KeyQ
  \/ frameCount < MaxInputFrames /\ KeyP
  \/ frameCount < MaxInputFrames /\ \E b \in BOOLEAN : SetStorm(b)
  \/ frameCount < MaxInputFrames /\ SetPhase

Spec == Init /\ [][Next]_vars

\* the generator and its consumers, called while the rover runs
NextGen ==
  \/ \E c \in Chunks : Query(c[1], c[2])
  \/ \E c \in Chunks : Render(c[1], c[2])
  \/ frameCount < MaxGenFrames /\ Tick

SpecGen == Init /\ [][NextGen]_vars

\* meteors fall on the rover while it stands in the open
NextCollide ==
  \/ frameCount < MaxInputFrames /\ SetPhase
  \/ damageCount < MaxDamage /\ \E v \in HitVelocities : Hit(v)
  \/ frameCount < MaxCollideFrames /\ Tick

SpecCollide == Init /\ [][NextCollide]_vars

\* a meteor knocks the rover between the rocks, the autopilot drives it on, and a
\* storm may start during a recovery
NextStuck ==
  \/ frameCount < MaxInputFrames /\ SetPhase
  \/ frameCount < MaxInputFrames /\ KeyQ
  \/ frameCount < MaxInputFrames /\ damageCount < MaxDamage
       /\ \E v \in HitVelocities : Hit(v)
  \/ agentState.recoveryTimer > 0 /\ SetStorm(TRUE)
  \/ frameCount < MaxStuckFrames /\ Tick

SpecStuck == Init /\ [][NextStuck]_vars

\* the rover at rest with some wheels over a hole or a rock
InitWheels == \E d \in WheelDeltas : InitWith(d)

NextWheels ==
  \/ /\ frameCount < MaxInputFrames
     /\ Cardinality({j \in Wheels : wheelTarget[j] # NeutralY}) < MaxRoughWheels
     /\ \E i \in Wheels : \E y \in TerrainHeights : Terrain(i, y)
  \/ frameCount < MaxWheelFrames /\ Tick

SpecWheels == InitWheels /\ [][NextWheels]_vars

\* lines 969-1076 as a function of the ray penalties: the assignments of the search
\* s made in mode m
SearchCommit(m, s) ==
  /\ ~frame.searchRan
  /\ agentState' = [agentState EXCEPT !.stuckTimer = s.stuckTimer,
                                      !.recoveryTimer = s.recoveryTimer,
                                      !.steerAngle = s.steerAngle]
  /\ frame' = [NoFrame EXCEPT
                 !.mode = m.mode, !.modeSpeed = m.targetSpeed,
                 !.targetSpeed = s.targetSpeed, !.targetSteer = s.targetSteer,
                 !.stopping = m.stopping,
                 !.performRaycastAvoidance = m.performRaycastAvoidance,
                 !.searchRan = s.loop.ran,
                 !.costs = s.loop.costs, !.penalties = s.loop.penalties,
                 !.bestIdx = s.loop.bestIdx, !.bestSteerOffset = s.loop.bestSteerOffset,
                 !.bestCost = s.loop.bestCost, !.allBlocked = s.loop.allBlocked,
                 !.stuckTimerIn = agentState.stuckTimer,
                 !.recoveryTimerIn = agentState.recoveryTimer,
                 !.stuckTimerMid = s.stuckTimerMid,
                 !.recoveryStarted = s.recoveryStarted, !.inRecovery = s.inRecovery,
                 !.speedIn = agentState.speed, !.steerIn = agentState.steerAngle]
  /\ UNCHANGED <<stormActive, meteorPhase, keysPressed, autoPilotRef, userPanelOverride,
                 frameCount, delta, roverPos, wheelY, wheelTarget, lastChunkPos,
                 obstaclesCache, damageCount, genLog, renderLast, lastHit, app>>

\* the search of one frame in mode m, given the penalties the rays collected
Search(penalties, m, rnd) ==
  SearchCommit(m,
               StuckAndRecovery(Choose(penalties, agentState.steerAngle,
                                       m.desiredHeading, m.headingWeight),
                                m, agentState.speed, agentState.steerAngle,
                                agentState.stuckTimer, agentState.recoveryTimer, delta,
                                rnd))

\* penalties: rays lo .. hi collect inside, the other rays outside
PenaltyLevels == {0, 150, 5000}
RayEdges == {1, 2, 18, 34, RAY_COUNT}
PenaltyPatterns ==
  {[i \in 1..RAY_COUNT |-> IF lo <= i /\ i <= hi THEN inside ELSE outside] :
     lo \in RayEdges, hi \in RayEdges, inside \in PenaltyLevels, outside \in PenaltyLevels}

\* the steer angle and the timers a search may start from
SearchStates ==
  {[steerAngle |-> st, stuckTimer |-> t[1], recoveryTimer |-> t[2]] :
     st \in {-800, 0, 300}, t \in {<<0, 0>>, <<900, 0>>, <<0, 500>>}}

\* the modes that enable the search: WANDER, and SEEK_COVER towards a target to
\* the west, to the north-east or right ahead
SearchModes ==
  {Wander}
    \cup {SeekTowards(<<[x |-> roverPos.x + t[1], z |-> roverPos.z + t[2], id |-> <<>>,
                          stopDist |-> 500]>>, roverPos, agentState.yaw) :
            t \in {<<-3000, 0>>, <<2000, -2000>>, <<0, -3000>>}}

InitSteer ==
  \E d \in Deltas : \E a \in SearchStates :
    InitRover(d, [InitAgentState EXCEPT !.steerAngle = a.steerAngle,
                                        !.stuckTimer = a.stuckTimer,
                                        !.recoveryTimer = a.recoveryTimer])

NextSteer ==
  \E penalties \in PenaltyPatterns : \E m \in SearchModes : \E rnd \in BOOLEAN :
    Search(penalties, m, rnd)

SpecSteer == InitSteer /\ [][NextSteer]_vars

-----------------------------------------------------------------------------
(* Properties of the generator and of the rock renderer *)

\* the slice of the obstacle cache that holds chunk n of the 3x3 neighbourhood
CacheSlice(n) ==
  SubSeq(obstaclesCache, (n - 1) * Len(getObstaclesInChunk(0, 0)) + 1,
         n * Len(getObstaclesInChunk(0, 0)))

DrawnX(cx, cz, i) ==
  LocalCoord(pseudoRandom(SeedBase(cx * CHUNK_SIZE, cz * CHUNK_SIZE), i * 3), CHUNK_SIZE)
    + cx * CHUNK_SIZE * LenUnit

\* C9: every generated obstacle of scale > 8 has |x| >= 25, in the results of the
\* calls and in the rover's cache
C9_CorridorExclusion ==
  /\ \A e \in genLog : \A k \in 1..Len(e.result) :
       e.result[k].scale > 800 => Abs(e.result[k].x) >= 2500
  /\ \A k \in 1..Len(obstaclesCache) :
       obstaclesCache[k].scale > 800 => Abs(obstaclesCache[k].x) >= 2500

\* a generated obstacle of scale > 8 that was drawn inside the corridor
C9_Witness ==
  \E e \in genLog : \E k \in 1..Len(e.result) :
    /\ e.result[k].scale > 800
    /\ Abs(DrawnX(e.chunk[1], e.chunk[2], e.result[k].id[3])) < 2500

\* the number of obstacles getObstaclesInChunk pushes before those of layer t
RECURSIVE LayerStart(_)
LayerStart(t) == IF t <= 1 THEN 0 ELSE LayerStart(t - 1) + ROCK_LAYERS[t - 1].count

\* C10: every instance the renderer lays out for a chunk has the world x, world z
\* and scale of the obstacle getObstaclesInChunk gives at the same tier and index
C10_ConsumersAgree ==
  renderLast # <<>> =>
    \A t \in 1..Len(renderLast[1].tiers) : \A k \in 1..Len(renderLast[1].tiers[t]) :
      LET inst == renderLast[1].tiers[t][k]
          obs  == getObstaclesInChunk(renderLast[1].chunk[1], renderLast[1].chunk[2])
                    [LayerStart(t) + k]
      IN  /\ Len(renderLast[1].tiers) = Len(ROCK_LAYERS)
          /\ Len(renderLast[1].tiers[t]) = ROCK_LAYERS[t].count
          /\ inst.worldX = obs.x /\ inst.worldZ = obs.z /\ inst.scale = obs.scale

\* a chunk was laid out in which a rock of scale > 8 drawn inside the corridor is
\* rendered outside it
C10_Witness ==
  /\ renderLast # <<>>
  /\ \E t \in 1..Len(renderLast[1].tiers) : \E k \in 1..Len(renderLast[1].tiers[t]) :
       /\ renderLast[1].tiers[t][k].scale > 800
       /\ Abs(DrawnX(renderLast[1].chunk[1], renderLast[1].chunk[2], k - 1)) < 2500
       /\ Abs(renderLast[1].tiers[t][k].worldX) >= 2500

-----------------------------------------------------------------------------
(* Properties of the frame update *)

\* C6: after every frame each wheel's offset lies within maxTravel of its neutral
\* height, and a wheel whose integrated offset was clamped has velocity 0
C6_SuspensionBound ==
  \A i \in Wheels :
    /\ wheelY[i] >= NeutralY - maxTravel
    /\ wheelY[i] <= NeutralY + maxTravel
    /\ frame.clamped[i] => agentState.wheelVelocities[i] = 0

\* a wheel overshot its travel in the last frame and was clamped
C6_Witness ==
  \E i \in Wheels :
    /\ frame.ran /\ frame.clamped[i]
    /\ wheelY[i] \in {NeutralY - maxTravel, NeutralY + maxTravel}

\* the rule of the transition priority list that matches first
FirstRule(keys, phase, storm, retractionT, autoPilot) ==
  IF \E k \in Keys : keys[k] THEN "MANUAL"
  ELSE IF phase = "IMPACT" \/ storm \/ retractionT > 50 THEN "STOPPED"
  ELSE IF phase = "INCOMING" THEN "SEEK_COVER"
  ELSE IF autoPilot THEN "WANDER"
  ELSE "STOPPED"

\* C7: the behaviour of every frame is that of the first matching rule - MANUAL
\* does not stop and does not search, STOPPED stops with target speed 0, SEEK_COVER
\* and WANDER enable the search - and the search runs in no other mode
C7_ModePriority ==
  frame.ran =>
    LET rule == FirstRule(frame.keys, frame.phase, frame.storm, frame.retractionT,
                          frame.autoPilot)
    IN  /\ frame.mode = rule
        /\ rule = "MANUAL" => ~frame.stopping /\ ~frame.performRaycastAvoidance
        /\ rule = "STOPPED" =>
             frame.stopping /\ frame.modeSpeed = 0 /\ ~frame.performRaycastAvoidance
        /\ rule = "SEEK_COVER" =>
             frame.performRaycastAvoidance /\ frame.modeSpeed \in {0, 1000}
        /\ rule = "WANDER" =>
             frame.performRaycastAvoidance /\ frame.modeSpeed = 200 /\ ~frame.stopping
        /\ frame.performRaycastAvoidance => rule \in {"SEEK_COVER", "WANDER"}
        /\ frame.searchRan => frame.performRaycastAvoidance

\* a frame in which a key was held during IMPACT and a storm: MANUAL won
C7_Witness ==
  /\ frame.ran /\ frame.mode = "MANUAL"
  /\ \E k \in Keys : frame.keys[k]
  /\ frame.phase = "IMPACT" /\ frame.storm /\ frame.autoPilot

\* the speed left of v after one frame of stopping
Decayed(v) == v - (v * delta * 2) \div 1000

\* C2 as stated: in every frame of a storm the commanded speed is 0 and the speed
\* decays, whatever the keys, the autopilot, the panels and the threat phase
C2_StormStops ==
  frame.ran /\ frame.storm =>
    /\ frame.targetSpeed = 0
    /\ Abs(agentState.speed) <= Decayed(Abs(frame.speedIn))

\* C2 amended: in every frame of a storm with no key held, or with the systems
\* offline, the commanded speed is 0 and the speed decays by the factor 1 - 2 delta;
\* with a key held and the systems online the keys command the speed
C2_StormStopsUnlessDriven ==
  frame.ran /\ frame.storm =>
    IF (\E k \in Keys : frame.keys[k]) /\ ~(frame.retractionT > 50)
    THEN /\ frame.mode = "MANUAL"
         /\ frame.targetSpeed
              = ((IF frame.keys["w"] THEN 1 ELSE 0) - (IF frame.keys["s"] THEN 1 ELSE 0)) * 500
    ELSE /\ frame.targetSpeed = 0
         /\ Abs(agentState.speed) <= Decayed(Abs(frame.speedIn))

\* the third frame in a row of a storm with no key held: the speed has decayed
C2_Witness ==
  /\ frame.ran /\ frame.storm /\ frameCount >= 3
  /\ \A k \in Keys : ~frame.keys[k]
  /\ agentState.speed > 0 /\ agentState.speed < frame.speedIn
  /\ agentState.speed < InitAgentState.speed \div 2

-----------------------------------------------------------------------------
(* Properties of the collision resolution *)

\* the tolerance of non-penetration: 0.05 units
Epsilon == LenUnit \div 20

\* the non-runnable obstacles of the cache the rover stands inside of
Penetrated ==
  {k \in 1..Len(obstaclesCache) :
     /\ obstaclesCache[k].scale >= RUNNABLE_ROCK_SCALE
     /\ DistSq(roverPos.x, roverPos.z, obstaclesCache[k].x, obstaclesCache[k].z)
          < (MinDist(obstaclesCache[k]) - Epsilon) * (MinDist(obstaclesCache[k]) - Epsilon)}

\* C1: after the collision resolution of any frame the rover is at least
\* scale * 0.85 + 0.8, less Epsilon, from the centre of every non-runnable obstacle
\* of the cache
C1_NonPenetration == frame.ran => Penetrated = {}

-----------------------------------------------------------------------------
(* Properties of the steering search *)

\* C3: a search in WANDER or SEEK_COVER with |target speed| > 0.1 that finds every
\* candidate blocked, the stuck timer above 1.0 and no recovery underway starts a
\* recovery in that same frame: the recovery timer is set to 2.0 (less the first
\* countdown step), the steer to -1.0 or 1.0 and the commanded speed to -2.0
C3_RecoveryEntry ==
  (/\ frame.searchRan
   /\ frame.mode \in {"WANDER", "SEEK_COVER"}
   /\ Abs(frame.modeSpeed) > 10
   /\ frame.allBlocked
   /\ frame.stuckTimerMid > 1000
   /\ frame.recoveryTimerIn <= 0)
  => /\ frame.recoveryStarted
     /\ agentState.recoveryTimer = 2000 - 3 * delta
     /\ agentState.stuckTimer = 0
     /\ frame.targetSteer \in {-1000, 1000}
     /\ frame.targetSpeed = -200

\* the rover wandered, found every candidate blocked in four searches in a row and
\* started a recovery
C3_Witness ==
  /\ frame.ran /\ frame.searchRan /\ frame.mode = "WANDER"
  /\ frame.allBlocked /\ frame.stuckTimerIn = 900 /\ frame.stuckTimerMid = 1200
  /\ frame.recoveryStarted /\ agentState.recoveryTimer = 1700

\* C4: a recovery episode is over at most 2.0 time units and one throttle interval
\* after it started, whatever inputs arrive in the meantime
C4_RecoveryExit ==
  agentState.recoveryTimer > 0 => frame.recoveryAge <= 2000 + 3 * delta

\* C5: when the search runs, the selected candidate costs no more than any other
\* candidate, it is the first candidate of that cost, and outside recovery the
\* target steer is its offset clamped to [-0.8, 0.8]
C5_SteeringOptimality ==
  frame.searchRan =>
    /\ frame.bestIdx \in 1..RAY_COUNT
    /\ frame.bestCost = frame.costs[frame.bestIdx]
    /\ frame.bestSteerOffset = AngleOffset(frame.bestIdx - 1)
    /\ \A j \in 1..RAY_COUNT : ~CostLess(frame.costs[j], frame.bestCost)
    /\ \A j \in 1..(frame.bestIdx - 1) : frame.costs[j] # frame.bestCost
    /\ ~frame.inRecovery =>
         frame.targetSteer = Max(-800, Min(800, frame.bestSteerOffset))

\* a search outside recovery in which two candidates tie for the least cost and
\* the offset of the first lies beyond the steering limit
C5_Witness ==
  /\ frame.searchRan /\ ~frame.inRecovery
  /\ \E j \in (frame.bestIdx + 1)..RAY_COUNT : frame.costs[j] = frame.bestCost
  /\ frame.bestSteerOffset < -800 /\ frame.targetSteer = -800

-----------------------------------------------------------------------------
(* The obstacle cache across chunk boundaries *)

MaxChunkFrames == 70        \* frames explored while the rover drives out of its chunk

\* the rover is driven by the keys held from the start
NextChunk ==
  \/ frameCount < MaxInputFrames /\ \E k \in Keys : KeyDown(k)
  \/ frameCount < MaxChunkFrames /\ Tick

SpecChunk == Init /\ [][NextChunk]_vars

\* the nine generator results around chunk (cx, cz), xx outer and zz inner
NineChunks(cx, cz) ==
  getObstaclesInChunk(cx - 1, cz - 1) \o getObstaclesInChunk(cx - 1, cz)
    \o getObstaclesInChunk(cx - 1, cz + 1)
    \o getObstaclesInChunk(cx, cz - 1) \o getObstaclesInChunk(cx, cz)
    \o getObstaclesInChunk(cx, cz + 1)
    \o getObstaclesInChunk(cx + 1, cz - 1) \o getObstaclesInChunk(cx + 1, cz)
    \o getObstaclesInChunk(cx + 1, cz + 1)

\* C11: after every frame the cache is the concatenation of the generator's results
\* over the 3x3 neighbourhood of the chunk (round(x/80), round(z/80)) of the position
\* the frame started at, that chunk is the recorded one, and a frame that starts in
\* the recorded chunk leaves the cache as it was
C11_CacheContent ==
  [][frameCount' = frameCount + 1 =>
       LET cx == (2 * roverPos.x + 80 * LenUnit) \div (2 * 80 * LenUnit)
           cz == (2 * roverPos.z + 80 * LenUnit) \div (2 * 80 * LenUnit)
       IN  /\ lastChunkPos' = [x |-> cx, z |-> cz]
           /\ obstaclesCache' = NineChunks(cx, cz)
           /\ ([x |-> cx, z |-> cz] = lastChunkPos => obstaclesCache' = obstaclesCache)]_vars

\* the rover has left its first chunk and the cache was rebuilt for the next one
C11_Witness ==
  /\ frame.ran /\ frameCount > 1
  /\ lastChunkPos # [x |-> 0, z |-> 0]
  /\ obstaclesCache = NineChunks(lastChunkPos.x, lastChunkPos.z)
  /\ obstaclesCache # NineChunks(0, 0)

-----------------------------------------------------------------------------
(* RoverHandle.hit *)

MaxHitFrames == 16          \* frames between the first meteors and the last ones

\* hit is a method of the exposed handle; Meteors.tsx passes a horizontal vector of
\* length 25, another caller may pass any vector
ImpactVelocities == {[x |-> -2400, y |-> 0, z |-> 700], [x |-> -2400, y |-> -600, z |-> 700]}

\* the panels are retracted by hand, the first meteors knock the rover towards a
\* giant rock, and more meteors strike MaxHitFrames frames later
NextHit ==
  \/ frameCount < MaxInputFrames /\ SetPhase
  \/ frameCount < MaxInputFrames /\ KeyP
  \/ frameCount < MaxInputFrames /\ damageCount < MaxDamage
       /\ \E v \in ImpactVelocities : Hit(v)
  \/ frameCount >= MaxHitFrames /\ \E v \in ImpactVelocities : Hit(v)
  \/ frameCount < MaxHitFrames /\ Tick

SpecHit == Init /\ [][NextHit]_vars

\* C12: a call of hit made while isUnderCover and retractionT > 0.8 leaves the
\* knockback velocity and the damage count as they were; any other call sets the
\* knockback velocity to the impact velocity with y zeroed and adds 1 to the damage
\* count, which stops at 20
C12_OnHit ==
  [][lastHit' # lastHit =>
       IF agentState.isUnderCover /\ agentState.retractionT > 800
       THEN /\ agentState'.knockbackVel = agentState.knockbackVel
            /\ damageCount' = damageCount
       ELSE /\ agentState'.knockbackVel = [x |-> lastHit'[1].impactVelocity.x, y |-> 0,
                                           z |-> lastHit'[1].impactVelocity.z]
            /\ damageCount' = (IF damageCount >= 20 THEN 20 ELSE damageCount + 1)]_vars

\* hit was called twice and only the first call did damage: the second found the
\* rover under cover with its panels retracted
C12_Witness ==
  /\ lastHit # <<>> /\ lastHit[1].seq = 1
  /\ lastHit[1].impactVelocity.y # 0
  /\ damageCount = 1
  /\ agentState.isUnderCover /\ agentState.retractionT > 800
  /\ frameCount = MaxHitFrames

-----------------------------------------------------------------------------
(* Manual driving *)

MaxTurnFrames == 4          \* frames after which more keys are pressed
MaxDriveFrames == 12        \* frames explored while the rover is driven by hand

\* 20 frames per second
DriveDeltas == {50}
DriveKeys == {"w", "a", "d"}

InitDrive == \E d \in DriveDeltas : InitWith(d)

\* keys are pressed before the first frame and again after MaxTurnFrames frames
NextDrive ==
  \/ (frameCount < MaxInputFrames \/ frameCount = MaxTurnFrames)
       /\ \E k \in DriveKeys : KeyDown(k)
  \/ frameCount < MaxDriveFrames /\ Tick

SpecDrive == InitDrive /\ [][NextDrive]_vars

\* throttle = 1 and steer = 0 are held during a frame that leaves the systems online
DrivenStraight ==
  /\ frameCount' = frameCount + 1
  /\ keysPressed["w"] /\ ~keysPressed["s"]
  /\ keysPressed["a"] = keysPressed["d"]
  /\ ~(agentState'.retractionT > 50)

\* C13 as stated: with throttle = 1 and steer = 0 held and the systems online, every
\* frame commands speed 5.0, moves the rover along its heading and leaves the yaw
\* as it was
C13_StraightDrive ==
  [][DrivenStraight =>
       /\ frame'.mode = "MANUAL" /\ frame'.targetSpeed = 500 /\ frame'.targetSteer = 0
       /\ agentState'.yaw = agentState.yaw]_vars

\* C13 amended: with throttle = 1 and steer = 0 held and the systems online, every
\* frame commands speed 5.0 and steer 0; the steer angle moves towards 0 by the
\* fraction 10 * delta of itself, and the yaw stays as it was unless the steer angle
\* the frame ends with is still above 0.01 in magnitude, when the yaw turns by
\* steerAngle * speed * delta * 0.6; a frame without knockback and without a
\* collision moves the rover by speed * delta along its heading
C13_StraightDriveOnceSteerDecayed ==
  [][DrivenStraight =>
       /\ frame'.mode = "MANUAL" /\ frame'.targetSpeed = 500 /\ frame'.targetSteer = 0
       /\ agentState'.steerAngle
            = agentState.steerAngle - Quot(agentState.steerAngle * delta * 10, 1000)
       /\ (~(Abs(agentState'.steerAngle) > 10) => agentState'.yaw = agentState.yaw)
       /\ (Abs(agentState'.steerAngle) > 10 /\ ~frame'.hitSomething
             => agentState'.yaw = agentState.yaw
                  + Quot(Quot(agentState'.steerAngle * agentState'.speed, 1000) * delta * 6,
                         1000))
       /\ (~frame'.hitSomething /\ agentState.knockbackVel = [x |-> 0, y |-> 0, z |-> 0]
             => /\ roverPos'.x = roverPos.x
                     - Quot(Quot(Sin(agentState'.yaw) * agentState'.speed, 1000) * delta, 1000)
                /\ roverPos'.z = roverPos.z
                     - Quot(Quot(Cos(agentState'.yaw) * agentState'.speed, 1000) * delta, 1000))]_vars

\* the rover has been driven straight ahead from the start for MaxDriveFrames frames:
\* it is north of where it started, at the same x and with the yaw it started with
C13_Witness ==
  /\ frameCount = MaxDriveFrames
  /\ frame.mode = "MANUAL" /\ frame.targetSpeed = 500 /\ frame.keys["w"]
  /\ frame.keys["a"] = frame.keys["d"]
  /\ agentState.steerAngle = 0 /\ agentState.yaw = 0
  /\ roverPos.x = 0 /\ roverPos.z < 1350 - 200
-----------------------------------------------------------------------------
(* Seeking cover: scenario A, the frame applied to a cache of one obstacle *)

MaxScenarioFrames == 60     \* frames explored in scenario A

\* the one obstacle of scenario A: scale 20 at (30, 0), with the radius and the id
\* getObstaclesInChunk would give it
ScenarioObstacle ==
  [id |-> <<0, 0, 0>>, x |-> 30 * LenUnit, z |-> 0, radius |-> 20 * LenUnit + 150,
   scale |-> 20 * LenUnit]

\* where the agent starts: at the origin, or farther west
ScenarioStarts == {0, -10 * LenUnit}

\* the refs at construction, but for the position and a cache that holds the one
\* obstacle and is recorded as that of the agent's chunk
InitScenarioA ==
  \E d \in Deltas : \E sx \in ScenarioStarts :
    /\ stormActive = FALSE
    /\ meteorPhase = "IDLE"
    /\ keysPressed = NoKeys
    /\ autoPilotRef = FALSE
    /\ userPanelOverride = "null"
    /\ frameCount = 0
    /\ delta = d
    /\ roverPos = [x |-> sx, y |-> 0, z |-> 0]
    /\ agentState = InitAgentState
    /\ wheelY = [i \in Wheels |-> NeutralY]
    /\ wheelTarget = [i \in Wheels |-> NeutralY]
    /\ lastChunkPos = [x |-> 0, z |-> 0]
    /\ obstaclesCache = <<ScenarioObstacle>>
    /\ damageCount = 0
    /\ frame = NoFrame
    /\ genLog = {}
    /\ renderLast = <<>>
    /\ lastHit = <<>>
    /\ app = InitApp

NextScenarioA ==
  \/ frameCount < MaxInputFrames /\ SetPhase
  \/ frameCount < MaxScenarioFrames /\ Tick

SpecScenarioA == InitScenarioA /\ [][NextScenarioA]_vars

\* the cover target scenario A resolves to
ScenarioTarget ==
  <<[x |-> 30 * LenUnit, z |-> 0, id |-> <<0, 0, 0>>,
     stopDist |-> (20 * LenUnit * 15) \div 10 + 150]>>

\* the agent is nearer to (30, 0) than the stop distance 31.5
WithinStopDist ==
  (roverPos.x - 30 * LenUnit) * (roverPos.x - 30 * LenUnit) + roverPos.z * roverPos.z
    < (3150 * 3150)

\* C14: in scenario A - agent at the origin, threat INCOMING, no key, no storm, one
\* obstacle of scale 20 at (30, 0) - the first frame resolves the cover target to
\* that obstacle with stopDist 31.5 and leaves the agent within stopDist of (30, 0)
\* with speed 0, and every later frame under the same threat keeps the target, the
\* position and speed 0
C14_ScenarioA ==
  [][(/\ frameCount' = frameCount + 1
      /\ meteorPhase = "INCOMING"
      /\ \/ agentState.currentCoverTarget = <<>> /\ roverPos.x = 0 /\ roverPos.z = 0
         \/ agentState.currentCoverTarget = ScenarioTarget /\ WithinStopDist)
     => /\ agentState'.currentCoverTarget = ScenarioTarget
        /\ agentState'.speed = 0
        /\ roverPos'.x = roverPos.x /\ roverPos'.z = roverPos.z
        /\ (roverPos'.x - 30 * LenUnit) * (roverPos'.x - 30 * LenUnit)
             + roverPos'.z * roverPos'.z < 3150 * 3150
        /\ frame'.mode = "SEEK_COVER"
        /\ frame'.stopping /\ frame'.targetSpeed = 0]_vars

\* scenario A has run for MaxScenarioFrames frames: the agent stands at the origin,
\* within 31.5 of the obstacle it took for cover
C14_Witness ==
  /\ frameCount = MaxScenarioFrames
  /\ meteorPhase = "INCOMING" /\ frame.phase = "INCOMING" /\ frame.mode = "SEEK_COVER"
  /\ agentState.currentCoverTarget = ScenarioTarget
  /\ WithinStopDist /\ agentState.speed = 0 /\ frame.stopping
  /\ roverPos.x = 0 /\ roverPos.z = 0
-----------------------------------------------------------------------------
(* Targets between two searches *)

\* the frame about to end is autonomous and follows a frame whose search ran
AfterSearch ==
  /\ frameCount' = frameCount + 1
  /\ frame.ran /\ frame.searchRan
  /\ frame.mode \in {"WANDER", "SEEK_COVER"}
  /\ frame'.mode = frame.mode
  /\ ~frame'.searchRan

\* C15: a frame in WANDER or SEEK_COVER whose search is skipped integrates with the
\* target steer and the target speed of the most recent search
C15_ValuesHeld ==
  [][AfterSearch =>
       /\ frame'.targetSteer = frame.targetSteer
       /\ frame'.targetSpeed = frame.targetSpeed]_vars

-----------------------------------------------------------------------------
(* The recovery manoeuvre *)

\* C16: after every frame of an active recovery episode (recoveryTimer > 0 in WANDER
\* or SEEK_COVER, not stopping) the commanded speed is -2.0, the target steer is the
\* recovery steer of the side chosen when the episode started, and the stuck timer
\* is 0
C16_RecoveryPattern ==
  (/\ frame.ran
   /\ frame.mode \in {"WANDER", "SEEK_COVER"} /\ ~frame.stopping
   /\ agentState.recoveryTimer > 0)
  => /\ frame.targetSpeed = -200
     /\ frame.targetSteer # 0
     /\ agentState.stuckTimer = 0

-----------------------------------------------------------------------------
(* The cover target through a threat *)

MaxHoldFrames == 2          \* the frame at which the threat escalates and keys are pressed
MaxStormFrames == 68        \* the frame at which a storm may start
MaxSeekFrames == 70         \* frames explored while a cover target is held

\* an alert before the first frame; later the alert escalates or clears, the rover is
\* backed away by hand, and a storm starts
NextCover ==
  \/ frameCount < MaxInputFrames /\ SetPhase
  \/ frameCount = MaxHoldFrames /\ SetPhase
  \/ frameCount = MaxHoldFrames /\ KeyDown("s")
  \/ frameCount = MaxStormFrames /\ SetStorm(TRUE)
  \/ frameCount < MaxSeekFrames /\ Tick

SpecCover == Init /\ [][NextCover]_vars

\* C17: a frame that starts with a cover target while the threat phase is not IDLE
\* ends with the same target (same x, z, id, stopDist), whatever the keys, the storm,
\* the phase and the chunk are; a frame that starts with the phase IDLE ends with no
\* cover target
C17_CoverTargetCached ==
  [][frameCount' = frameCount + 1 =>
       /\ (meteorPhase = "IDLE" => agentState'.currentCoverTarget = <<>>)
       /\ (meteorPhase # "IDLE" /\ agentState.currentCoverTarget # <<>> =>
             agentState'.currentCoverTarget = agentState.currentCoverTarget)]_vars

\* a target chosen before the first chunk was left is still held, in the next chunk,
\* with a key down, during IMPACT and in a storm
C17_Witness ==
  /\ frame.ran /\ frameCount > MaxStormFrames
  /\ agentState.currentCoverTarget # <<>>
  /\ lastChunkPos # [x |-> 0, z |-> 0]
  /\ keysPressed["s"] /\ stormActive /\ meteorPhase = "IMPACT"
-----------------------------------------------------------------------------
(* Cover target selection from positions around the first chunk *)

MaxSelectFrames == 2        \* frames explored from each position

\* positions in the first chunk whose depression scan stays on the height lattice
SelectXs == {500 * k - 1000 : k \in 0..9}
SelectZs == {700 * k - 3900 : k \in 0..9}

\* the cache of the first chunk
FirstCache == Neighbourhood(0, 0)

\* the positions where every cached obstacle leaves room for the rover
SelectStarts ==
  {s \in SelectXs \X SelectZs :
     \A k \in 1..Len(FirstCache) :
       DistSq(FirstCache[k].x, FirstCache[k].z, s[1], s[2])
         > MinDist(FirstCache[k]) * MinDist(FirstCache[k])}

\* the refs at construction, but for a position the rover was driven to, with the
\* cache of its chunk
InitSelect ==
  \E d \in Deltas : \E s \in SelectStarts :
    /\ stormActive = FALSE
    /\ meteorPhase = "IDLE"
    /\ keysPressed = NoKeys
    /\ autoPilotRef = FALSE
    /\ userPanelOverride = "null"
    /\ frameCount = 0
    /\ delta = d
    /\ roverPos = [x |-> s[1], y |-> 0, z |-> s[2]]
    /\ agentState = InitAgentState
    /\ wheelY = [i \in Wheels |-> NeutralY]
    /\ wheelTarget = [i \in Wheels |-> NeutralY]
    /\ lastChunkPos = [x |-> 0, z |-> 0]
    /\ obstaclesCache = FirstCache
    /\ damageCount = 0
    /\ frame = NoFrame
    /\ genLog = {}
    /\ renderLast = <<>>
    /\ lastHit = <<>>
    /\ app = InitApp

NextSelect ==
  \/ frameCount < MaxInputFrames /\ SetPhase
  \/ frameCount < MaxSelectFrames /\ Tick

SpecSelect == InitSelect /\ [][NextSelect]_vars

\* the cached obstacles of scale >= 8
Giants(cache) == {k \in 1..Len(cache) : cache[k].scale >= 8 * LenUnit}

\* the squared distance from pos to the nearest giant of a cache that holds one
GiantDistSq(cache, pos) ==
  LET G == Giants(cache)
      d == [k \in G |-> DistSq(cache[k].x, cache[k].z, pos.x, pos.z)]
  IN  CHOOSE b \in {d[k] : k \in G} : \A k \in G : b <= d[k]

\* the giants no other giant is nearer to pos than
NearestGiants(cache, pos) ==
  LET best == GiantDistSq(cache, pos)
  IN  {k \in Giants(cache) : DistSq(cache[k].x, cache[k].z, pos.x, pos.z) = best}

\* an obstacle as a cover target: stopDist = 1.5 * scale + 1.5
ObstacleTarget(obs) ==
  <<[x |-> obs.x, z |-> obs.z, id |-> obs.id, stopDist |-> (15 * obs.scale) \div 10 + 150]>>

\* the grid points around pos, 10 apart up to 50 away from pos snapped down to the
\* grid, whose base height is below -3.0
Depressions(pos) ==
  {p \in {<<(pos.x \div (10 * LenUnit)) * (10 * LenUnit) + i * 10 * LenUnit,
            (pos.z \div (10 * LenUnit)) * (10 * LenUnit) + j * 10 * LenUnit>> :
            i \in -5..5, j \in -5..5} :
     getBaseTerrainHeight(p[1], p[2]) < -300}

\* a grid point as a cover target: stopDist 5.0
DepressionTarget(p) == <<[x |-> p[1], z |-> p[2], id |-> <<>>, stopDist |-> 500]>>

\* the selection rule: t is the target chosen at pos over the cache
Selected(t, cache, pos) ==
  LET best == GiantDistSq(cache, pos)
      near == {p \in Depressions(pos) : DistSq(p[1], p[2], pos.x, pos.z) < best}
  IN  IF best <= 900 * LenUnit * LenUnit \/ near = {}
      THEN \E k \in NearestGiants(cache, pos) : t = ObstacleTarget(cache[k])
      ELSE \E p \in near : t = DepressionTarget(p)

\* C18: a SEEK_COVER frame that starts without a cover target, over a cache that
\* holds an obstacle of scale >= 8, ends with the nearest such obstacle as target
\* (x, z, id, stopDist = 1.5 * scale + 1.5) when it is within 30 units (squared
\* distance <= 900); when it is farther, the target is that obstacle unless a grid
\* point of base height < -3.0 is strictly nearer, and then the target is such a
\* point with stopDist 5.0
C18_CoverTargetSelection ==
  [][(/\ frameCount' = frameCount + 1
      /\ meteorPhase = "INCOMING" /\ agentState.currentCoverTarget = <<>>
      /\ frame'.mode = "SEEK_COVER"
      /\ Giants(obstaclesCache') # {})
     => Selected(agentState'.currentCoverTarget, obstaclesCache', roverPos)]_vars

\* a depression was taken for cover although the cache holds giants: each of them is
\* farther than 31 units from where the rover is, and farther than the depression
C18_Witness ==
  /\ frame.ran /\ frame.mode = "SEEK_COVER" /\ frameCount = 1
  /\ agentState.currentCoverTarget # <<>>
  /\ agentState.currentCoverTarget[1].id = <<>>
  /\ agentState.currentCoverTarget[1].stopDist = 500
  /\ Giants(obstaclesCache) # {}
  /\ GiantDistSq(obstaclesCache, roverPos) > 961 * LenUnit * LenUnit
  /\ DistSq(agentState.currentCoverTarget[1].x, agentState.currentCoverTarget[1].z,
            roverPos.x, roverPos.z) < GiantDistSq(obstaclesCache, roverPos)

-----------------------------------------------------------------------------
(* The steering search beside the cover target *)

MaxExemptFrames == 3        \* frames explored up to the first search

NextExempt ==
  \/ frameCount < MaxInputFrames /\ SetPhase
  \/ frameCount < MaxExemptFrames /\ Tick

SpecExempt == InitSelect /\ [][NextExempt]_vars

\* obs is the obstacle the cover target t was made from
IsTarget(obs, t) ==
  /\ t # <<>>
  /\ obs.id = t[1].id /\ obs.x = t[1].x /\ obs.z = t[1].z
  /\ (obs.scale * 15) \div 10 + 150 = t[1].stopDist

\* the cached non-runnable obstacles a sample point can reach, less the cover target
AllButTarget(cache, t, pos, lookAhead) ==
  SelectSeq(cache, LAMBDA obs :
    /\ ~IsTarget(obs, t)
    /\ obs.scale >= 250
    /\ DistSq(pos.x, pos.z, obs.x, obs.z)
         < (lookAhead + (obs.radius * 12) \div 10 + 2) * (lookAhead + (obs.radius * 12) \div 10 + 2))

\* C19: in a search with a cover target, the penalty of each ray is the one that
\* every cached obstacle of scale >= 2.5 within 1.2 radii of a sample point adds up
\* to, the cover target itself being the only obstacle left out
C19_OnlyTargetExempt ==
  [][(/\ frameCount' = frameCount + 1
      /\ frame'.searchRan /\ frame'.mode = "SEEK_COVER"
      /\ agentState'.currentCoverTarget # <<>>)
     => LET speed0 == IF frame'.stopping THEN 0 ELSE agentState.speed
        IN  frame'.penalties =
              Rays(AllButTarget(obstaclesCache', agentState'.currentCoverTarget, roverPos,
                                LookAhead(speed0)),
                   roverPos, agentState.yaw, speed0)]_vars

-----------------------------------------------------------------------------
(* Path clearance *)

\* the world z rock i of chunk (cx, cz) is drawn at
DrawnZ(cx, cz, i) ==
  LocalCoord(pseudoRandom(SeedBase(cx * CHUNK_SIZE, cz * CHUNK_SIZE), i * 3 + 1), CHUNK_SIZE)
    + cz * CHUNK_SIZE * LenUnit

\* r1 * 10 for rock i of chunk (cx, cz)
DrawnOffset(cx, cz, i) ==
  (pseudoRandom(SeedBase(cx * CHUNK_SIZE, cz * CHUNK_SIZE), i * 3) * 10 * LenUnit) \div RandUnit

\* the generated rocks, of the logged calls and of the last layout, each with its
\* chunk, its index in the layer and its scale, x and z
Placed ==
  UNION {{[cx |-> e.chunk[1], cz |-> e.chunk[2], i |-> e.result[k].id[3],
            scale |-> e.result[k].scale, x |-> e.result[k].x, z |-> e.result[k].z] :
             k \in 1..Len(e.result)} :
          e \in genLog}
  \cup (IF renderLast = <<>> THEN {}
        ELSE UNION {{[cx |-> renderLast[1].chunk[1], cz |-> renderLast[1].chunk[2],
                      i |-> k - 1, scale |-> renderLast[1].tiers[t][k].scale,
                      x |-> renderLast[1].tiers[t][k].worldX,
                      z |-> renderLast[1].tiers[t][k].worldZ] :
                       k \in 1..Len(renderLast[1].tiers[t])} :
                    t \in 1..Len(renderLast[1].tiers)})

\* the rock is of scale > 8 and was drawn inside the corridor |x| < 25
InCorridor(o) == o.scale > 8 * LenUnit /\ Abs(DrawnX(o.cx, o.cz, o.i)) < 25 * LenUnit

\* the rock lies on the side it was drawn on, at the z it was drawn at, within the
\* x-range of its chunk
KeptInPlace(o) ==
  /\ (DrawnX(o.cx, o.cz, o.i) >= 0 => o.x >= 0)
  /\ (DrawnX(o.cx, o.cz, o.i) < 0 => o.x < 0)
  /\ o.z = DrawnZ(o.cx, o.cz, o.i)
  /\ Abs(o.x - o.cx * 80 * LenUnit) <= 40 * LenUnit

\* C20 as stated: a rock of scale > 8 drawn at |x| < 25 is placed at |x| = 25 on the
\* side it was drawn on, with the z it was drawn at, inside its chunk's x-range;
\* every other rock is placed where it was drawn
C20_MovedToEdge ==
  \A o \in Placed :
    IF InCorridor(o)
    THEN Abs(o.x) = 25 * LenUnit /\ KeptInPlace(o)
    ELSE o.x = DrawnX(o.cx, o.cz, o.i) /\ o.z = DrawnZ(o.cx, o.cz, o.i)

\* C20, amended: a rock of scale > 8 drawn at |x| < 25 is placed at
\* |x| = 25 + 10 * r1, r1 being the draw its x came from, hence at 25 <= |x| < 35, on
\* the side it was drawn on, with the z it was drawn at, inside its chunk's x-range;
\* every other rock is placed where it was drawn
C20_MovedPastEdge ==
  \A o \in Placed :
    IF InCorridor(o)
    THEN /\ Abs(o.x) = 25 * LenUnit + DrawnOffset(o.cx, o.cz, o.i)
         /\ Abs(o.x) >= 25 * LenUnit /\ Abs(o.x) < 35 * LenUnit
         /\ KeptInPlace(o)
    ELSE o.x = DrawnX(o.cx, o.cz, o.i) /\ o.z = DrawnZ(o.cx, o.cz, o.i)

\* a call returned a rock of scale > 8 moved out of the corridor, past its edge, and
\* the smaller rock drawn at the same place, left where it was drawn
C20_Witness ==
  \E o \in Placed : \E q \in Placed :
    /\ InCorridor(o) /\ o.x # DrawnX(o.cx, o.cz, o.i) /\ Abs(o.x) > 25 * LenUnit
    /\ q.cx = o.cx /\ q.cz = o.cz /\ q.i = o.i
    /\ q.scale <= 8 * LenUnit /\ q.x = DrawnX(q.cx, q.cz, q.i)
    /\ Abs(q.x) < 25 * LenUnit
-----------------------------------------------------------------------------
(* The surface under the rover *)

MaxSurfaceFrames == 5       \* frames explored on and around a small rock

\* the rocks of the first chunk the rover can drive over
SmallRocks ==
  {k \in 1..Len(FirstCache) :
     /\ FirstCache[k].scale < 250
     /\ Abs(FirstCache[k].x) < 30 * LenUnit /\ Abs(FirstCache[k].z) < 30 * LenUnit}

\* positions on and beside those rocks, where every larger rock leaves room
SurfaceStarts ==
  {s \in UNION {{<<FirstCache[k].x + dx, FirstCache[k].z + dz>> :
                   dx \in {-150, -100, 0, 100}, dz \in {0, 100, 250}} : k \in SmallRocks} :
     \A k \in 1..Len(FirstCache) :
       \/ FirstCache[k].scale < 250
       \/ DistSq(FirstCache[k].x, FirstCache[k].z, s[1], s[2])
            > MinDist(FirstCache[k]) * MinDist(FirstCache[k])}

\* the refs at construction, but for a position the rover was driven to, with the
\* cache of its chunk
InitSurface ==
  \E d \in Deltas : \E s \in SurfaceStarts :
    /\ stormActive = FALSE
    /\ meteorPhase = "IDLE"
    /\ keysPressed = NoKeys
    /\ autoPilotRef = FALSE
    /\ userPanelOverride = "null"
    /\ frameCount = 0
    /\ delta = d
    /\ roverPos = [x |-> s[1], y |-> 0, z |-> s[2]]
    /\ agentState = InitAgentState
    /\ wheelY = [i \in Wheels |-> NeutralY]
    /\ wheelTarget = [i \in Wheels |-> NeutralY]
    /\ lastChunkPos = [x |-> 0, z |-> 0]
    /\ obstaclesCache = FirstCache
    /\ damageCount = 0
    /\ frame = NoFrame
    /\ genLog = {}
    /\ renderLast = <<>>
    /\ lastHit = <<>>
    /\ app = InitApp

NextSurface ==
  \/ frameCount < MaxInputFrames /\ KeyDown("w")
  \/ frameCount < MaxSurfaceFrames /\ Tick

SpecSurface == InitSurface /\ [][NextSurface]_vars

\* the cached obstacles of scale < 2.5 nearer to (wx, wz) than 0.9 * scale
Under(cache, wx, wz) ==
  {k \in 1..Len(cache) :
     /\ cache[k].scale < 250
     /\ DistSq(wx, wz, cache[k].x, cache[k].z)
          < ((9 * cache[k].scale) \div 10) * ((9 * cache[k].scale) \div 10)}

\* base(obs) - 0.4 * scale + sqrt((0.9 * scale)^2 - d^2)
Hemisphere(obs, wx, wz) ==
  getBaseTerrainHeight(obs.x, obs.z) - (4 * obs.scale) \div 10
    + Sqrt(((9 * obs.scale) \div 10) * ((9 * obs.scale) \div 10)
             - DistSq(wx, wz, obs.x, obs.z))

\* the greatest of the base height at (wx, wz) and the hemispheres above it
SurfaceAt(cache, wx, wz) ==
  LET hs == {getBaseTerrainHeight(wx, wz)}
              \cup {Hemisphere(cache[k], wx, wz) : k \in Under(cache, wx, wz)}
  IN  CHOOSE h \in hs : \A g \in hs : g <= h

\* C21: the surface height a frame takes at the rover's position is the greatest of
\* the base height there and, over the cached obstacles of scale < 2.5 nearer than
\* 0.9 * scale, of base(obs) - 0.4 * scale + sqrt((0.9 * scale)^2 - d^2); it is not
\* below the base height, it is the same without the obstacles of scale >= 2.5, and
\* the rover's height moves towards it
C21_SurfaceHeightQuery ==
  [][frameCount' = frameCount + 1 =>
       LET h == getSurfaceHeight(obstaclesCache', roverPos'.x, roverPos'.z)
       IN  /\ h = SurfaceAt(obstaclesCache', roverPos'.x, roverPos'.z)
           /\ h >= getBaseTerrainHeight(roverPos'.x, roverPos'.z)
           /\ h = getSurfaceHeight(SelectSeq(obstaclesCache', LAMBDA obs : obs.scale < 250),
                                   roverPos'.x, roverPos'.z)
           /\ roverPos'.y = Lerp(roverPos.y, h + 55, 200)]_vars

\* the rover stands on a small rock: the surface there is above the base terrain
C21_Witness ==
  /\ frame.ran
  /\ Under(obstaclesCache, roverPos.x, roverPos.z) # {}
  /\ SurfaceAt(obstaclesCache, roverPos.x, roverPos.z)
       > getBaseTerrainHeight(roverPos.x, roverPos.z) + 20

-----------------------------------------------------------------------------
(* The cover flag beside a rock at the rim of a giant's cover *)

MaxShelterFrames == 6       \* frames explored while the rover is driven at the rock

\* positions south-east of the rock 0:0:14, which lies at the rim of the cover of the
\* giant 0:0:2, where every rock leaves room for the rover
ShelterStarts ==
  {s \in {-1050 + 10 * i : i \in 0..15} \X {2150 + 10 * j : j \in 0..15} :
     \A k \in 1..Len(FirstCache) :
       \/ FirstCache[k].scale < 250
       \/ DistSq(FirstCache[k].x, FirstCache[k].z, s[1], s[2])
            > MinDist(FirstCache[k]) * MinDist(FirstCache[k])}

InitShelter ==
  \E d \in Deltas : \E s \in ShelterStarts :
    /\ stormActive = FALSE
    /\ meteorPhase = "IDLE"
    /\ keysPressed = NoKeys
    /\ autoPilotRef = FALSE
    /\ userPanelOverride = "null"
    /\ frameCount = 0
    /\ delta = d
    /\ roverPos = [x |-> s[1], y |-> 0, z |-> s[2]]
    /\ agentState = InitAgentState
    /\ wheelY = [i \in Wheels |-> NeutralY]
    /\ wheelTarget = [i \in Wheels |-> NeutralY]
    /\ lastChunkPos = [x |-> 0, z |-> 0]
    /\ obstaclesCache = FirstCache
    /\ damageCount = 0
    /\ frame = NoFrame
    /\ genLog = {}
    /\ renderLast = <<>>
    /\ lastHit = <<>>
    /\ app = InitApp

NextShelter ==
  \/ frameCount < MaxInputFrames /\ KeyDown("w")
  \/ frameCount < MaxShelterFrames /\ Tick

SpecShelter == InitShelter /\ [][NextShelter]_vars

\* (x, z) lies within 1.1 * scale of a cached obstacle of scale > 8
CoverAt(cache, x, z) ==
  \E k \in 1..Len(cache) :
    /\ cache[k].scale > 8 * LenUnit
    /\ DistSq(x, z, cache[k].x, cache[k].z)
         < ((11 * cache[k].scale) \div 10) * ((11 * cache[k].scale) \div 10)

\* C22: after a frame the flag is true exactly when the position the frame leaves
\* the rover at lies within 1.1 * scale of a cached obstacle of scale > 8, whether
\* or not the frame pushed the rover out of a rock, and a frame with a push-out
\* multiplies the speed by 0.95 once
C22_UnderCoverFlag ==
  [][frameCount' = frameCount + 1 =>
       /\ agentState'.isUnderCover = CoverAt(obstaclesCache', roverPos'.x, roverPos'.z)
       /\ LET speed0 == IF frame'.mode = "SEEK_COVER" /\ frame'.stopping THEN 0
                         ELSE agentState.speed
               speed1 == IF frame'.stopping THEN Lerp(speed0, 0, delta * 2)
                         ELSE Lerp(speed0, frame'.targetSpeed,
                                   delta * (IF keysPressed["w"] \/ keysPressed["s"]
                                            THEN 3 ELSE 2))
           IN  agentState'.speed = IF frame'.hitSomething THEN Quot(speed1 * 95, 100)
                                   ELSE speed1]_vars

-----------------------------------------------------------------------------
(* The stuck timer from frame to frame *)

\* the frame that ends in the primed state wants to move and is blocked, or has
\* near-zero speed with no recovery active
WantsAndCannot ==
  /\ Abs(frame'.modeSpeed) > 10
  /\ \/ frame'.searchRan /\ frame'.allBlocked
     \/ /\ ~(Abs(IF frame'.mode = "SEEK_COVER" /\ frame'.stopping THEN 0
                 ELSE agentState.speed) > 10)
        /\ agentState.recoveryTimer <= 0

\* C23: on every frame that wants to move and is blocked, or has |speed| <= 0.1 with
\* no recovery active, the stuck timer grows, unless a recovery is under way, which
\* zeroes it; on every other frame it decays, towards 0; it is never negative, and
\* it is 0 while the recovery timer is counting down
C23_StuckTimerDiscipline ==
  [][frameCount' = frameCount + 1 =>
       /\ (WantsAndCannot =>
             \/ agentState'.stuckTimer > agentState.stuckTimer
             \/ frame'.inRecovery /\ agentState'.stuckTimer = 0)
       /\ (~WantsAndCannot =>
             \/ agentState'.stuckTimer < agentState.stuckTimer
             \/ agentState'.stuckTimer = 0)
       /\ agentState'.stuckTimer >= 0
       /\ (agentState'.recoveryTimer > 0 => agentState'.stuckTimer = 0)]_vars
-----------------------------------------------------------------------------
(* The scan cycle *)

MaxScanFrames == 125        \* frames explored over two scan cycles
MaxCalmFrames == 60         \* a storm or an alert starts at this frame or never

\* the rover stands in the open; a storm or an alert interrupts the first scan for
\* a few frames, or nothing does
NextScan ==
  \/ frameCount = MaxCalmFrames /\ ~stormActive /\ meteorPhase = "IDLE" /\ SetStorm(TRUE)
  \/ frameCount \in MaxCalmFrames + 2 .. MaxCalmFrames + 4 /\ SetStorm(FALSE)
  \/ frameCount \in {MaxCalmFrames, MaxCalmFrames + 2, MaxCalmFrames + 4}
       /\ ~stormActive /\ (frameCount = MaxCalmFrames => meteorPhase = "IDLE")
       /\ SetPhase
  \/ frameCount < MaxScanFrames /\ Tick

SpecScan == Init /\ [][NextScan]_vars

\* C24: after a tick the flag is on only if the tick saw no storm, an IDLE threat
\* and left the timer in (5.0, 7.0]; on such a tick the timer advances by delta, the
\* flag is on once the timer exceeds 5.0, and once it exceeds 7.0 the flag is off
\* and the timer is 0 again, so that the next cycle starts; on a tick with a storm
\* or a threat the flag is off and the timer keeps its value
C24_ScanCycle ==
  [][frameCount' = frameCount + 1 =>
       LET calm == ~stormActive /\ meteorPhase = "IDLE"
           t == agentState.scanTimer + delta
       IN  /\ (agentState'.isScanning =>
                 calm /\ agentState'.scanTimer > 5000 /\ agentState'.scanTimer <= 7000)
           /\ (calm /\ t <= 5000 =>
                 ~agentState'.isScanning /\ agentState'.scanTimer = t)
           /\ (calm /\ t > 5000 /\ t <= 7000 =>
                 agentState'.isScanning /\ agentState'.scanTimer = t)
           /\ (calm /\ t > 7000 =>
                 ~agentState'.isScanning /\ agentState'.scanTimer = 0)
           /\ (~calm =>
                 ~agentState'.isScanning /\ agentState'.scanTimer = agentState.scanTimer)]_vars

\* the second scan is under way after the first was interrupted by a storm
C24_Witness ==
  /\ agentState.isScanning
  /\ frameCount > 71 + 51
  /\ frameCount < 71 + 71
  /\ frame.ran /\ ~frame.storm /\ frame.phase = "IDLE"
  /\ agentState.scanTimer > 5000

-----------------------------------------------------------------------------
(* Systems offline *)

KeyHeld == \E k \in Keys : keysPressed[k]

\* C25: on a tick with a movement key held that finds retractionT > 0.05, the target
\* speed and the target steer are 0 and the cost search does not run; retractionT
\* stays within [0, 1]; with the autopilot on the manual panel override is null after
\* the tick and retractionT moves by 0.6 * delta towards 1 if stormActive or the
\* threat is IMPACT, and towards 0 otherwise
C25_SystemsOffline ==
  [][frameCount' = frameCount + 1 =>
       /\ (KeyHeld /\ agentState'.retractionT > 50 =>
             /\ frame'.targetSpeed = 0
             /\ frame'.targetSteer = 0
             /\ ~frame'.searchRan)
       /\ agentState'.retractionT >= 0
       /\ agentState'.retractionT <= 1000
       /\ (autoPilotRef =>
             /\ userPanelOverride' = "null"
             /\ agentState'.retractionT =
                  IF stormActive \/ meteorPhase = "IMPACT"
                  THEN Min(1000, agentState.retractionT + (delta * 6) \div 10)
                  ELSE Max(0, agentState.retractionT - (delta * 6) \div 10))]_vars

\* a key is held with the autopilot on while a storm retracts the panels: the
\* rover is commanded to stand still
C25_Witness ==
  /\ frame.ran
  /\ KeyHeld
  /\ autoPilotRef /\ stormActive
  /\ agentState.retractionT > 50
  /\ frame.mode = "MANUAL"
  /\ frame.targetSpeed = 0 /\ frame.targetSteer = 0
-----------------------------------------------------------------------------
(* App and GestureController: gestures, timeouts and effects.  Every action  *)
(* is one task of the event loop: a gesture seen by predict, an expired      *)
(* timeout, or React running the effects whose dependencies changed.  React  *)
(* applies the queued state updates in one render and runs useEffect         *)
(* callbacks after that render, in a later task than the setState call.      *)

MaxGestures == 2            \* gestures recognised in a run
MaxAppTime == 42000         \* ms of App time explored
TimeStep == 5 * 100        \* ms between two instants of the clock: every delay is a multiple

\* the props GestureController's init effect captured: predict, detectGestures,
\* onWave and onPress are those of the first render (effect deps [])
FirstRender == [stormActive |-> FALSE, meteorPhase |-> "IDLE"]

\* the props of the latest render
LatestRender == [stormActive |-> stormActive, meteorPhase |-> meteorPhase]

\* the render whose handlers the gesture loop calls
GestureRender == FirstRender

Timeout(kind, ms) == [kind |-> kind, due |-> app.now + ms]

\* triggerCooldown
triggerCooldown(timers) == timers \cup {Timeout("cooldown", 2000)}

\* App.handlePress of the render r, called by detectGestures
handlePress(r) ==
  IF r.meteorPhase # "IDLE"
  THEN /\ meteorPhase' = meteorPhase
       /\ app' = [app EXCEPT !.timers = triggerCooldown(@), !.cooldownRef = TRUE,
                             !.last = "press", !.presses = @ + 1]
  ELSE /\ meteorPhase' = "INCOMING"
       /\ app' = [app EXCEPT
                    !.timers = triggerCooldown(@) \cup {Timeout("impact", 2500),
                                                        Timeout("idle", 8000)},
                    !.cooldownRef = TRUE, !.last = "press", !.presses = @ + 1,
                    !.pressAt = IF meteorPhase = "IDLE" THEN app.now ELSE @]

\* App.handleWave of the render r, called by detectGestures
handleWave(r) ==
  IF r.stormActive
  THEN /\ stormActive' = stormActive
       /\ app' = [app EXCEPT !.timers = triggerCooldown(@), !.cooldownRef = TRUE,
                             !.last = "wave", !.waves = @ + 1]
  ELSE /\ stormActive' = TRUE
       /\ app' = [app EXCEPT !.timers = triggerCooldown(@), !.cooldownRef = TRUE,
                             !.last = "wave", !.waves = @ + 1,
                             !.stormSince = IF stormActive THEN @ ELSE app.now]

\* detectGestures sees a press: diffY > 0.25 outside the cooldown
Press ==
  /\ ~app.cooldownRef
  /\ app.presses + app.waves < MaxGestures
  /\ handlePress(GestureRender)
  /\ UNCHANGED <<stormActive, keysPressed, autoPilotRef, userPanelOverride, frameCount,
                 delta, roverPos, agentState, wheelY, wheelTarget, lastChunkPos,
                 obstaclesCache, damageCount, frame, genLog, renderLast, lastHit>>

\* detectGestures sees a wave: diffX > 0.25 outside the cooldown
Wave ==
  /\ ~app.cooldownRef
  /\ app.presses + app.waves < MaxGestures
  /\ handleWave(GestureRender)
  /\ UNCHANGED <<meteorPhase, keysPressed, autoPilotRef, userPanelOverride, frameCount,
                 delta, roverPos, agentState, wheelY, wheelTarget, lastChunkPos,
                 obstaclesCache, damageCount, frame, genLog, renderLast, lastHit>>

\* a timeout may run: the random storm is due 30 to 40 s after it was set
\* (Math.random() * 10000 + 30000), the others at their time
Due(t) ==
  IF t.kind = "random" THEN app.now >= t.due /\ app.now < t.due + 10000
  ELSE app.now = t.due

\* the callback of the timeout t runs
Fire(t) ==
  /\ t \in app.timers
  /\ Due(t)
  /\ stormActive' = (IF t.kind = "random" THEN TRUE
                     ELSE IF t.kind = "duration" THEN FALSE ELSE stormActive)
  /\ meteorPhase' = (IF t.kind = "impact" THEN "IMPACT"
                     ELSE IF t.kind = "idle" THEN "IDLE" ELSE meteorPhase)
  /\ app' = [app EXCEPT !.timers = @ \ {t},
                        !.cooldownRef = IF t.kind = "cooldown" THEN FALSE ELSE @,
                        !.last = t.kind,
                        !.stormSince = IF t.kind = "random" /\ ~stormActive
                                       THEN app.now ELSE @]
  /\ UNCHANGED <<keysPressed, autoPilotRef, userPanelOverride, frameCount,
                 delta, roverPos, agentState, wheelY, wheelTarget, lastChunkPos,
                 obstaclesCache, damageCount, frame, genLog, renderLast, lastHit>>

\* the effects of App have run for the state of the latest render
EffectsRun == app.deps = LatestRender

\* noise.ts 111-128: the random sandstorm scheduler effect, cleanup and body
Scheduler(timers) ==
  {t \in timers : t.kind # "random"}
    \cup (IF stormActive \/ meteorPhase # "IDLE" THEN {} ELSE {Timeout("random", 30000)})

\* noise.ts 130-140: the sandstorm duration effect, cleanup and body
Duration(timers) ==
  IF app.deps.stormActive = stormActive THEN timers
  ELSE {t \in timers : t.kind # "duration"}
         \cup (IF stormActive THEN {Timeout("duration", 10000)} ELSE {})

\* React renders App with the new state and runs the effects whose deps changed
Commit ==
  /\ ~EffectsRun
  /\ app' = [app EXCEPT !.timers = Duration(Scheduler(@)),
                        !.deps = LatestRender, !.last = "commit"]
  /\ UNCHANGED <<stormActive, meteorPhase, keysPressed, autoPilotRef,
                 userPanelOverride, frameCount,
                 delta, roverPos, agentState, wheelY, wheelTarget, lastChunkPos,
                 obstaclesCache, damageCount, frame, genLog, renderLast, lastHit>>

\* time passes once every task that is ready has run
Advance ==
  /\ app.now < MaxAppTime
  /\ EffectsRun
  /\ \A t \in app.timers :
       IF t.kind = "random" THEN app.now + TimeStep < t.due + 10000
       ELSE t.due > app.now
  /\ app' = [app EXCEPT !.now = @ + TimeStep, !.last = "advance"]
  /\ UNCHANGED <<stormActive, meteorPhase, keysPressed, autoPilotRef,
                 userPanelOverride, frameCount,
                 delta, roverPos, agentState, wheelY, wheelTarget, lastChunkPos,
                 obstaclesCache, damageCount, frame, genLog, renderLast, lastHit>>

NextApp ==
  \/ Press
  \/ Wave
  \/ \E t \in app.timers : Fire(t)
  \/ Commit
  \/ Advance

SpecApp == Init /\ [][NextApp]_vars

\* the pending timeouts of handlePress
PhaseTimers(a) == {t \in a.timers : t.kind \in {"impact", "idle"}}

\* C26: a press while the meteor phase is not IDLE changes neither the phase nor
\* the pending phase timeouts; the phase only steps IDLE -> INCOMING -> IMPACT ->
\* IDLE, to IMPACT 2.5 s and to IDLE 8 s after the press that left IDLE
C26_ThreatPhaseSequencing ==
  [][/\ (app'.presses # app.presses /\ meteorPhase # "IDLE" =>
           meteorPhase' = meteorPhase /\ PhaseTimers(app') = PhaseTimers(app))
     /\ (meteorPhase' # meteorPhase =>
           /\ meteorPhase' = NextPhase(meteorPhase)
           /\ (meteorPhase' = "IMPACT" => app'.now = app'.pressAt + 2500)
           /\ (meteorPhase' = "IDLE" => app'.now = app'.pressAt + 8000))]_vars

\* C27: the random storm timeout never runs while a storm is active or the meteor
\* phase is not IDLE; every storm ends exactly 10 s after stormActive became
\* true, whatever started it, and a wave during a storm does not prolong it
C27_StormScheduling ==
  [][/\ (app'.last = "random" => ~stormActive /\ meteorPhase = "IDLE")
     /\ (stormActive /\ ~stormActive' => app'.now = app.stormSince + 10000)
     /\ (stormActive' => app'.now <= app'.stormSince + 10000)
     /\ (stormActive /\ app'.waves # app.waves =>
           stormActive' /\ app'.stormSince = app.stormSince)]_vars

-----------------------------------------------------------------------------
(* Obstacle ids *)

\* C28: no two entries of a list returned by getObstaclesInChunk share an id, and
\* no two entries of the obstacle cache share an id
C28_UniqueIds ==
  /\ \A e \in genLog : \A i, j \in 1..Len(e.result) :
       e.result[i].id = e.result[j].id => i = j
  /\ \A i, j \in 1..Len(obstaclesCache) :
       obstaclesCache[i].id = obstaclesCache[j].id => i = j

-----------------------------------------------------------------------------
(* Arrival at cover *)

\* C29: a tick on which SEEK_COVER stops the rover within stopDist of an obstacle
\* cover target leaves the rover flagged as under cover
C29_ArrivalMeansCover ==
  [][/\ frameCount' = frameCount + 1
     /\ frame'.mode = "SEEK_COVER" /\ frame'.stopping
     /\ agentState'.currentCoverTarget # <<>>
     /\ agentState'.currentCoverTarget[1].id # <<>>
     => agentState'.isUnderCover]_vars

-----------------------------------------------------------------------------
(* Runnable and non-runnable obstacles *)

\* the cached obstacles one can drive over, and the others
Runnable(cache) == SelectSeq(cache, LAMBDA obs : obs.scale < 250)
NonRunnable(cache) == SelectSeq(cache, LAMBDA obs : obs.scale >= 250)

\* the consumers of a frame read the two classes: the surface height is that of
\* the runnable obstacles alone, the collision that of the non-runnable alone
SurfaceAndCollision ==
  /\ Len(Runnable(obstaclesCache')) + Len(NonRunnable(obstaclesCache'))
       = Len(obstaclesCache')
  /\ getSurfaceHeight(obstaclesCache', roverPos'.x, roverPos'.z)
       = SurfaceAt(Runnable(obstaclesCache'), roverPos'.x, roverPos'.z)
  /\ LET col == ResolveCollisions(NonRunnable(obstaclesCache'),
                                  frame'.proposed.x, frame'.proposed.z)
     IN  /\ roverPos'.x = col.x /\ roverPos'.z = col.z
         /\ frame'.hitSomething = col.hitSomething

\* the penalties of the 35 rays over those of the obstacles rocks that a sample
\* point can reach
PenaltiesOver(rocks) ==
  LET speed0 == IF frame'.mode = "SEEK_COVER" /\ frame'.stopping THEN 0
                ELSE agentState.speed
      reach(obs) == LookAhead(speed0) + (obs.radius * 12) \div 10 + 2
  IN  Rays(SelectSeq(rocks, LAMBDA obs :
                       DistSq(roverPos.x, roverPos.z, obs.x, obs.z)
                         < reach(obs) * reach(obs)),
           roverPos, agentState.yaw, speed0)

\* the non-runnable obstacles that do not carry the id of the cover target t
NotTargetId(cache, t) ==
  SelectSeq(NonRunnable(cache), LAMBDA obs : t = <<>> \/ obs.id # t[1].id)

=============================================================================
